---------------------------- MODULE Spec2Model ----------------------------
(***************************************************************************)
(* A model of the valve subsystem and of the pressure-management control   *)
(* loop of EPANET 3 with the Pressure Management Extension.                *)
(*                                                                         *)
(*   src/src/Elements/valve.cpp   Valve: initialize, setInitFlow,          *)
(*                                findHeadLoss, updateStatus,              *)
(*                                changeSetting, changeStatus,             *)
(*                                applyControlPattern                      *)
(*   src/src/Core/project.cpp     Project: pressureManagement, lasting,    *)
(*                                load, save, clear, initSolver,           *)
(*                                runSolver, advanceSolver, openOutput,    *)
(*                                saveOutput, openReport, writeReport      *)
(*   src/src/Core/epanet3.cpp     EN_runEpanet: the step loop              *)
(*                                                                         *)
(* One link of the network is modelled, together with its two end nodes    *)
(* and its remote node.  The loops of pressureManagement and lasting over  *)
(* the links treat every link independently of the others, so one link of  *)
(* every type stands for all of them.                                      *)
(*                                                                         *)
(* Numbers.  The code computes in double.  The model computes in integers  *)
(* on fixed grids:                                                         *)
(*   heads, elevations, pressures, errors : HeadScale units per foot       *)
(*   flows                                : units of ZERO_FLOW             *)
(*   openings Xm, Xm_Last, delta_Xm       : XmScale units per 1.0          *)
(*   pressures and coefficients of the input file : UserDen units per      *)
(*                                          user unit                      *)
(* NaN stands for a double that is not a number (every comparison with it  *)
(* is false, every sum with it is NaN), Inf and -Inf for the infinities    *)
(* and for every double too large for the grid; Uninit stands for a        *)
(* member that no constructor has assigned.                                *)
(* A head-loss gradient is a pair <<r, g>> for r * HIGH_RESISTANCE +       *)
(* g * MIN_GRADIENT, a head loss a pair <<h, e>> of h units of the head    *)
(* grid and e units of MIN_GRADIENT * ZERO_FLOW, and a loss factor a       *)
(* fraction <<num, den>>, infinite when den = 0.                           *)
(***************************************************************************)
EXTENDS Integers, Sequences, FiniteSets, TLC

(***************************************************************************)
(* Grids and sentinels.                                                    *)
(***************************************************************************)
HeadScale == 2
XmScale == 5
AlfaDen == 45000
UcfDen == 10000
UserDen == 10
NaN == -999999
Inf == 777777
Uninit == -888888

(***************************************************************************)
(* Bounds of the model.                                                    *)
(***************************************************************************)
MinHead == 6
MaxHead == 8
MaxFlow == 2
MaxAlfa == 2
MaxSteps == 2
MaxMsgs == 2

(***************************************************************************)
(* Program constants.                                                      *)
(***************************************************************************)
ZERO_FLOW == 1
K5 == 130
K6 == 56
VcontrolNum == 47
LiftDen == 570
XmInitNum == 2
ErrorPreInitNum == 5
FeetPerMeterUcf == 3048

(***************************************************************************)
(* Data of the network under analysis (input file), fixed during a run.    *)
(***************************************************************************)
ToElev == 1
FromElev == 0
RemoteElev == 1
AreaFlow == 2
HYD_STEP == 1800
fixedOutletPressure == 10
dayPressure == 10
nightPressure == 11
rnmPressure == 10
a_FM == 1
b_FM == 1
c_FM == 30

HeadVals == MinHead..MaxHead
FlowVals == (0 - MaxFlow)..MaxFlow
AlfaVals == 1..MaxAlfa
SettingVals == {0, MinHead}
FactorVals == {0, 1, 2}
TimeVals == {0, 1800, 3600, 18000, 604800, 604801}

LinkTypes == {"PIPE", "PUMP", "VALVE"}
ValveTypes == {"PRV", "PSV", "FCV", "TCV", "PBV", "GPV", "CCV", "DPRV"}
PresManagTypes == {"FO", "TM", "FM", "RNM"}
LinkStatuses == {"LINK_CLOSED", "LINK_OPEN", "VALVE_ACTIVE", "TEMP_CLOSED"}
UnitSystems == {"SI", "US"}

(***************************************************************************)
(* double arithmetic with NaN.                                             *)
(***************************************************************************)
isInf(a) == a = Inf \/ a = 0 - Inf
fNeg(a) == IF a = NaN THEN NaN ELSE 0 - a
fAdd(a, b) ==
    IF a = NaN \/ b = NaN THEN NaN
    ELSE IF isInf(a) THEN (IF isInf(b) /\ a # b THEN NaN ELSE a)
    ELSE IF isInf(b) THEN b
    ELSE a + b
fSub(a, b) == fAdd(a, fNeg(b))
fSign(a) == IF a > 0 THEN 1 ELSE IF a < 0 THEN 0 - 1 ELSE 0
fMul(a, b) ==
    IF a = NaN \/ b = NaN THEN NaN
    ELSE IF isInf(a) \/ isInf(b)
         THEN (IF a = 0 \/ b = 0 THEN NaN ELSE fSign(a) * fSign(b) * Inf)
    ELSE a * b
fLt(a, b) == a # NaN /\ b # NaN /\ a < b
fGt(a, b) == a # NaN /\ b # NaN /\ a > b
fGe(a, b) == a # NaN /\ b # NaN /\ a >= b
fLe(a, b) == a # NaN /\ b # NaN /\ a <= b
Abs(a) == IF a < 0 THEN 0 - a ELSE a
TruncDiv(n, d) == IF n >= 0 THEN n \div d ELSE 0 - ((0 - n) \div d)
\* a double divided by a positive finite one
fDiv(n, d) == IF n = NaN \/ isInf(n) THEN n ELSE TruncDiv(n, d)
RECURSIVE GCD(_, _)
GCD(a, b) == IF b = 0 THEN a ELSE GCD(b, a % b)


(***************************************************************************)
(* Unit conversion factors of the network (Network::ucf), as UcfDen-ths.   *)
(* SI: pressure in metres, lengths in metres, flows in litres per second;  *)
(* US: pressure in psi, lengths in feet, flows in cubic feet per second.   *)
(***************************************************************************)
ucfPressure(units) == IF units = "SI" THEN 3048 ELSE 4333
ucfLength(units) == IF units = "SI" THEN 3048 ELSE 10000
ucfFlow(units) == IF units = "SI" THEN 283170 ELSE 10000

\* x / ucf on the head grid, for x in UserDen-ths of a user unit
toInternal(x, ucf) == fDiv(fMul(x, HeadScale * (UcfDen \div UserDen)), ucf)

(***************************************************************************)
(* Valve::convertSetting, lines 101-103: the elevation kept by the valve.  *)
(***************************************************************************)
elev(vtype) ==
    CASE vtype = "PRV" -> ToElev
      [] vtype = "DPRV" -> ToElev
      [] vtype = "PSV" -> FromElev
      [] OTHER -> 0

(***************************************************************************)
(* Valve::setInitFlow.                                                     *)
(***************************************************************************)
setInitFlow(vtype, s) ==
    CASE vtype = "FCV" -> s
      [] vtype = "CCV" -> IF s = 0 THEN ZERO_FLOW ELSE AreaFlow
      [] vtype = "DPRV" -> IF s = 0 THEN ZERO_FLOW ELSE AreaFlow
      [] OTHER -> AreaFlow

(***************************************************************************)
(* Valve::updatePrvStatus, Valve::updatePsvStatus, Valve::updateDprvStatus *)
(***************************************************************************)
\* updatePrvStatus with the head tests made before the test of reverse flow
updatePrvStatusHeadFirst(s, q, h1, h2, set) ==
    LET hset == set + elev("PRV") IN
    CASE s = "VALVE_ACTIVE" ->
             IF h1 < hset THEN "LINK_OPEN"
             ELSE IF q < 0 - ZERO_FLOW THEN "LINK_CLOSED"
             ELSE s
      [] s = "LINK_OPEN" ->
             IF h2 > hset THEN "VALVE_ACTIVE"
             ELSE IF q < 0 - ZERO_FLOW THEN "LINK_CLOSED"
             ELSE s
      [] s = "LINK_CLOSED" ->
             IF h1 > hset /\ h2 < hset THEN "VALVE_ACTIVE"
             ELSE IF h1 < hset /\ h1 > h2 THEN "LINK_OPEN"
             ELSE s
      [] OTHER -> s

updatePrvStatus(s, q, h1, h2, set) ==
    LET hset == set + elev("PRV") IN
    CASE s = "VALVE_ACTIVE" ->
             IF q < 0 - ZERO_FLOW THEN "LINK_CLOSED"
             ELSE IF h1 < hset THEN "LINK_OPEN"
             ELSE s
      [] s = "LINK_OPEN" ->
             IF q < 0 - ZERO_FLOW THEN "LINK_CLOSED"
             ELSE IF h2 > hset THEN "VALVE_ACTIVE"
             ELSE s
      [] s = "LINK_CLOSED" ->
             IF h1 > hset /\ h2 < hset THEN "VALVE_ACTIVE"
             ELSE IF h1 < hset /\ h1 > h2 THEN "LINK_OPEN"
             ELSE s
      [] OTHER -> s

updatePsvStatus(s, q, h1, h2, set) ==
    LET hset == set + elev("PSV") IN
    CASE s = "VALVE_ACTIVE" ->
             IF q < 0 - ZERO_FLOW THEN "LINK_CLOSED"
             ELSE IF h2 > hset THEN "LINK_OPEN"
             ELSE s
      [] s = "LINK_OPEN" ->
             IF q < 0 - ZERO_FLOW THEN "LINK_CLOSED"
             ELSE IF h1 < hset THEN "VALVE_ACTIVE"
             ELSE s
      [] s = "LINK_CLOSED" ->
             IF h2 < hset /\ h1 > hset THEN "VALVE_ACTIVE"
             ELSE IF h2 > hset /\ h1 > h2 THEN "LINK_OPEN"
             ELSE s
      [] OTHER -> s

\* dprvOutlet with the fixed outlet pressure taken as it stands in the input
dprvOutletUnconverted(pm, toH) ==
    IF pm = "FO" THEN (fixedOutletPressure * HeadScale) \div UserDen
    ELSE toH - ToElev

\* the member dprvOutletPressure as updateDprvStatus assigns it (lines 571-578);
\* nothing else reads or writes that member, so the model keeps no variable for it
dprvOutlet(pm, toH) ==
    IF pm = "FO" THEN toInternal(fixedOutletPressure, FeetPerMeterUcf)
    ELSE toH - ToElev

updateDprvStatus(s, q, h1, h2, pm, toH) ==
    LET hset == dprvOutlet(pm, toH) + elev("DPRV") IN
    CASE s = "VALVE_ACTIVE" ->
             IF q < 0 - ZERO_FLOW THEN "LINK_CLOSED"
             ELSE IF h1 < hset THEN "LINK_OPEN"
             ELSE s
      [] s = "LINK_OPEN" ->
             IF q < 0 - ZERO_FLOW THEN "LINK_CLOSED"
             ELSE IF h2 > hset THEN "VALVE_ACTIVE"
             ELSE s
      [] s = "LINK_CLOSED" ->
             IF h1 > hset /\ h2 < hset THEN "VALVE_ACTIVE"
             ELSE IF h1 < hset /\ h1 > h2 THEN "LINK_OPEN"
             ELSE s
      [] OTHER -> s

\* updateStatus without the early return of line 520
updateStatusIgnoringFixed(vtype, fixed, s, q, h1, h2, set, pm, toH) ==
    CASE vtype = "PRV" -> updatePrvStatus(s, q, h1, h2, set)
      [] vtype = "DPRV" -> updateDprvStatus(s, q, h1, h2, pm, toH)
      [] vtype = "PSV" -> updatePsvStatus(s, q, h1, h2, set)
      [] OTHER -> s

\* Valve::updateStatus: the status it leaves
updateStatusNew(vtype, fixed, s, q, h1, h2, set, pm, toH) ==
    IF fixed THEN s
    ELSE CASE vtype = "PRV" -> updatePrvStatus(s, q, h1, h2, set)
           [] vtype = "DPRV" -> updateDprvStatus(s, q, h1, h2, pm, toH)
           [] vtype = "PSV" -> updatePsvStatus(s, q, h1, h2, set)
           [] OTHER -> s

\* updateStatus zeroing the flow of a valve it closes
updateStatusFlowZero(s, newS, f) ==
    IF newS # s /\ newS = "LINK_CLOSED" THEN 0 ELSE f

\* Valve::updateStatus: the flow it leaves, given the new status
updateStatusFlow(s, newS, f) ==
    IF newS # s /\ newS = "LINK_CLOSED" THEN ZERO_FLOW ELSE f

\* Valve::findHeadLoss: the status it leaves (the CCV branch assigns it)
findHeadLossStatus(vtype, fixed, s, set) ==
    IF s = "TEMP_CLOSED" THEN s
    ELSE IF fixed THEN s
    ELSE IF vtype = "CCV" THEN (IF set = 0 THEN "LINK_CLOSED" ELSE "LINK_OPEN")
    ELSE s

(***************************************************************************)
(* Head loss and gradient (valve.cpp lines 212-512).                       *)
(*                                                                         *)
(* HIGH_RESISTANCE = 1e8 and MIN_GRADIENT = 1e-6 lie 14 decimal orders     *)
(* apart, so a gradient is held as a pair <<r, g>> standing for            *)
(* r HIGH_RESISTANCE + g MIN_GRADIENT, and a head loss as a pair <<h, e>>  *)
(* standing for h units of the head grid + e units of MIN_GRADIENT times   *)
(* ZERO_FLOW (1e-12 feet).  A loss factor is a fraction <<num, den>>;      *)
(* den = 0 is the infinite factor 1 / 0.  NotANumber is the pair of a      *)
(* double that is not a number.                                            *)
(***************************************************************************)
HIGH_RESISTANCE == <<1, 0>>
MIN_GRADIENT == <<0, 1>>
NoLoss == <<0, 0>>
NotANumber == <<NaN, NaN>>
Infinite == <<Inf, 0>>

\* HIGH_RESISTANCE * ZERO_FLOW = 1e8 * 1e-6, in feet
ResistanceOfZeroFlow == 100
\* 1 / ZERO_FLOW: the flow units of one cubic foot per second
FlowPerCfs == 1000000

\* data of the link: lossFactor as convertUnits leaves it (line 77),
\* 0.025173 / diameter^4 (line 346) as ThrottleNum / ThrottleDen, the option
\* VALVE_REP_TYPE, and the segment of the head loss curve of a GPV that
\* Curve::findSegment returns, converted to internal units (lines 470-476)
LossFactor == <<1, 1>>
ThrottleNum == 1
ThrottleDen == 2
VALVE_REP_TYPE == "Toe"
CurveSlope == 1000000
CurveIntercept == 1

\* line 374: valve_conductance^2 = 16.96^2, in 10000ths
VcSquare == 2876416
\* line 420: Cvtr^2 = 0.07550186203^2, in 10000ths
CvtrSq == 57

\* valve.cpp lines 413-425: Cv / Cvmax = k1 Xm^3 + k2 Xm^2 + k3 Xm + k4 for
\* 0.12 <= Xm <= 1, as CvNum / CvDen (no point of the grid of openings lies
\* in the range 0 < Xm < 0.12 of the linear branch)
CvNum(x) ==
    9 * x * x * x - 121 * XmScale * x * x + 233 * XmScale * XmScale * x
        - 21 * XmScale * XmScale * XmScale

CvDen == 100 * XmScale * XmScale * XmScale

\* Cvmax^2 = 1.442760731^2, in 10000ths
CvmaxSq == 20816

lfTimes(lf, n) == TruncDiv(lf[1] * n, lf[2])
lfMax(a, b) == IF a[1] * b[2] < b[1] * a[2] THEN b ELSE a

\* a >= b for two head losses whose second parts are below one head unit
lossGe(a, b) == a[1] > b[1] \/ (a[1] = b[1] /\ a[2] >= b[2])

\* HeadLossModel::findClosedHeadLoss(q, hLoss, hGrad)
findClosedHeadLoss(q) ==
    [hLoss |-> <<ResistanceOfZeroFlow * HeadScale * q, 0>>, hGrad |-> HIGH_RESISTANCE]

\* the open formula without the lower bound on the gradient
findOpenHeadLossUnclipped(lf, q) ==
    IF lf = NotANumber \/ (lf[2] = 0 /\ q = 0)
    THEN [hLoss |-> NotANumber, hGrad |-> NotANumber]
    ELSE IF lf[2] = 0
    THEN [hLoss |-> <<fSign(q) * Inf, 0>>, hGrad |-> Infinite]
    ELSE [hLoss |-> <<0, lfTimes(lf, Abs(q) * q)>>,
          hGrad |-> <<0, lfTimes(lf, 2 * Abs(q))>>]

\* Valve::findOpenHeadLoss(q), lines 302-311
findOpenHeadLoss(lf, q) ==
    IF lf = NotANumber \/ (lf[2] = 0 /\ q = 0)
    THEN [hLoss |-> NotANumber, hGrad |-> NotANumber]
    ELSE IF lf[2] = 0
    THEN [hLoss |-> <<fSign(q) * Inf, 0>>, hGrad |-> Infinite]
    ELSE IF 2 * lf[1] * Abs(q) < lf[2]
    THEN [hLoss |-> <<0, q>>, hGrad |-> MIN_GRADIENT]
    ELSE [hLoss |-> <<0, lfTimes(lf, Abs(q) * q)>>,
          hGrad |-> <<0, lfTimes(lf, 2 * Abs(q))>>]

\* Valve::findPbvHeadLoss(q), lines 317-331
findPbvHeadLoss(lf, set, q) ==
    IF lossGe(<<0, lfTimes(lf, q * q)>>, <<Abs(set), 0>>)
    THEN findOpenHeadLoss(lf, q)
    ELSE [hLoss |-> <<set, 0>>, hGrad |-> MIN_GRADIENT]

\* Valve::findTcvHeadLoss(q), lines 337-359
findTcvHeadLoss(lf, set, q) ==
    findOpenHeadLoss(lfMax(<<ThrottleNum * set, ThrottleDen * HeadScale>>, lf), q)

\* Valve::findCcvHeadLoss(nw, q), lines 365-399: the loss factor it leaves,
\* for the Toe representation and for an option that is neither Toe nor Cd
ccvLossFactor(rep, lf, set) ==
    CASE rep = "Toe" -> <<10000 * HeadScale * HeadScale, VcSquare * set * set>>
      [] rep \notin {"Toe", "Cd"} -> lf

findCcvHeadLoss(rep, lf, set, q) == findOpenHeadLoss(ccvLossFactor(rep, lf, set), q)

\* Valve::findDprvHeadLoss(nw, q), lines 401-452: 1 / Cv^2 for an opening
\* within [0, 1]
dprvLossFactor(x) ==
    IF 100 * x < 12 * XmScale
    THEN <<144 * XmScale * XmScale, CvtrSq * x * x>>
    ELSE <<(CvDen \div 100) * (CvDen \div 100),
           (((CvNum(x) * CvNum(x)) \div 10000) * CvmaxSq) \div 10000>>

\* the loss factors 1 / Cv^2 of a Cv that no branch has assigned
GarbageLossFactors == {<<1, 0>>, <<1, 1>>, NotANumber}

findDprvHeadLoss(x, q) ==
    IF x \in 0..XmScale
    THEN {findOpenHeadLoss(dprvLossFactor(x), q)}
    ELSE {findOpenHeadLoss(g, q) : g \in GarbageLossFactors}

\* Valve::findGpvHeadLoss(nw, q), lines 456-484
findGpvHeadLoss(q) ==
    IF q < 0
    THEN [hLoss |-> <<0 - CurveIntercept, 0 - CurveSlope * Abs(q)>>, hGrad |-> <<0, CurveSlope>>]
    ELSE [hLoss |-> <<CurveIntercept, CurveSlope * Abs(q)>>, hGrad |-> <<0, CurveSlope>>]

\* Valve::findFcvHeadLoss(q), lines 490-512; the setting is a flow
findFcvHeadLoss(lf, set, q) ==
    LET xflow == q - (set * FlowPerCfs) \div HeadScale
    IN  IF xflow > 0
        THEN [hLoss |-> <<lfTimes(lf, set * set) \div HeadScale
                              + ResistanceOfZeroFlow * HeadScale * xflow, 0>>,
              hGrad |-> HIGH_RESISTANCE]
        ELSE IF q < 0 THEN findClosedHeadLoss(q)
        ELSE findOpenHeadLoss(lf, q)

\* the values a member Xm may hold: any opening of the grid or a number
\* outside [0, 1] when no constructor and no call of the controller has
\* assigned it
xmValues(x) == IF x = Uninit THEN (0..XmScale) \cup {NaN} ELSE {x}

\* lines 263-279, called for a fixed valve as well
findHeadLossDprvFirst(vtype, fixed, s, set, x, lf, q) ==
    IF vtype = "DPRV" /\ s # "TEMP_CLOSED"
    THEN UNION {IF s = "LINK_CLOSED" \/ xv = 0 THEN {findClosedHeadLoss(q)}
                ELSE IF s = "LINK_OPEN" THEN {findOpenHeadLoss(lf, q)}
                ELSE findDprvHeadLoss(xv, q) : xv \in xmValues(x)}
    ELSE IF s = "TEMP_CLOSED" \/ (fixed /\ s = "LINK_CLOSED") THEN {findClosedHeadLoss(q)}
    ELSE {findOpenHeadLoss(lf, q)}

\* Valve::findHeadLoss(nw, q), lines 212-296: the values of hLoss and hGrad
\* it may leave
findHeadLossOutcomes(vtype, fixed, s, set, x, lf, q) ==
    IF s = "TEMP_CLOSED" THEN {findClosedHeadLoss(q)}
    ELSE IF fixed
    THEN IF s = "LINK_CLOSED" THEN {findClosedHeadLoss(q)}
         ELSE IF s = "LINK_OPEN" THEN {findOpenHeadLoss(lf, q)}
         ELSE {[hLoss |-> NoLoss, hGrad |-> NoLoss]}
    ELSE CASE vtype = "PBV" -> {findPbvHeadLoss(lf, set, q)}
           [] vtype = "TCV" -> {findTcvHeadLoss(lf, set, q)}
           [] vtype = "CCV" ->
                 IF set = 0 THEN {findClosedHeadLoss(q)}
                 ELSE {findCcvHeadLoss(VALVE_REP_TYPE, lf, set, q)}
           [] vtype = "DPRV" ->
                 UNION {IF s = "LINK_CLOSED" \/ xv = 0 THEN {findClosedHeadLoss(q)}
                        ELSE IF s = "LINK_OPEN" THEN {findOpenHeadLoss(lf, q)}
                        ELSE findDprvHeadLoss(xv, q) : xv \in xmValues(x)}
           [] vtype = "GPV" -> {findGpvHeadLoss(q)}
           [] vtype = "FCV" -> {findFcvHeadLoss(lf, set, q)}
           [] vtype \in {"PRV", "PSV"} ->
                 IF s = "LINK_CLOSED" THEN {findClosedHeadLoss(q)}
                 ELSE IF s = "LINK_OPEN" THEN {findOpenHeadLoss(lf, q)}
                 ELSE {[hLoss |-> NoLoss, hGrad |-> NoLoss]}

\* Valve::findHeadLoss: the loss factor it leaves (findCcvHeadLoss does not
\* restore it, line 398)
findHeadLossFactor(vtype, fixed, s, set, lf) ==
    IF s # "TEMP_CLOSED" /\ ~fixed /\ vtype = "CCV" /\ set # 0
    THEN ccvLossFactor(VALVE_REP_TYPE, lf, set)
    ELSE lf

(***************************************************************************)
(* Project::pressureManagement: the pieces of the per-valve computation.   *)
(***************************************************************************)
XmInit == (XmInitNum * XmScale) \div 10
ErrorPreInit == (ErrorPreInitNum * HeadScale) \div 10

\* lines 518-547: the time schedule of the TM mode, in the code's order
TMSchedule ==
    << <<0, 3600, "day">>, <<3600, 18000, "night">>, <<18000, 90000, "day">>,
       <<90000, 104400, "night">>, <<104400, 176400, "day">>,
       <<176400, 190800, "night">>, <<190800, 262800, "day">>,
       <<262800, 277200, "night">>, <<277200, 349200, "day">>,
       <<349200, 363600, "night">>, <<363600, 435600, "day">>,
       <<435600, 450000, "night">>, <<450000, 522000, "day">>,
       <<522000, 536400, "night">>, <<536400, 604800, "day">> >>

\* the first branch of the if / else-if chain that takes t; 0 when none does
tmBranch(tt) ==
    LET hits == {i \in 1..Len(TMSchedule) :
                    TMSchedule[i][1] <= tt /\ tt <= TMSchedule[i][2]}
    IN  IF hits = {} THEN 0 ELSE CHOOSE i \in hits : \A j \in hits : i <= j

\* the values the local `ref` may hold when no branch assigned it (line 460
\* declares it without a value): not a number, out of range on either side,
\* or what an earlier call left in its place
GarbageRef(units) ==
    {NaN, 0 - Inf, Inf, toInternal(dayPressure, ucfPressure(units)),
     toInternal(nightPressure, ucfPressure(units))}

\* the values of `ref` when the error of an ACTIVE valve is computed
refValues(pm, tt, q, units) ==
    CASE pm = "FO" -> {toInternal(fixedOutletPressure, ucfPressure(units))}
      [] pm = "TM" ->
            IF tmBranch(tt) = 0 THEN GarbageRef(units)
            ELSE IF TMSchedule[tmBranch(tt)][3] = "day"
                 THEN {toInternal(dayPressure, ucfPressure(units))}
                 ELSE {toInternal(nightPressure, ucfPressure(units))}
      [] pm = "FM" ->
            LET Q == TruncDiv(q * ucfFlow(units), UcfDen)
            IN  {toInternal(a_FM * Q * Q + b_FM * Q + c_FM, ucfLength(units))}
      [] OTHER -> {toInternal(rnmPressure, ucfPressure(units))}

\* the control law with the sign of the error reversed
controlFlowReversed(e, alfaopen, alfaclose) == fMul(alfaopen, fNeg(e))

\* the control law with the opening gain on either side
controlFlowOneGain(e, alfaopen, alfaclose) == fMul(alfaopen, e)

\* lines 578-588: the physical control law
controlFlow(e, alfaopen, alfaclose) ==
    IF fGe(e, 0) THEN fMul(alfaopen, e)
    ELSE IF fLe(e, 0) THEN fMul(alfaclose, e)
    ELSE 0

\* lines 572-576 and 590: delta_Xm = (q3 / Acs) * deltat, with
\* Acs = (k5 Xm^2 + k6) Vcontrol / lift and q3 in AlfaDen-ths.  The fraction
\* is reduced factor by factor, so that no product leaves the 32-bit integers.
deltaXm(q3, x) ==
    LET n1 == HYD_STEP * 100
        d1 == AlfaDen * HeadScale
        g1 == GCD(n1, d1)
        n2 == (n1 \div g1) * LiftDen
        d2 == (d1 \div g1) * VcontrolNum
        g2 == GCD(n2, d2)
        n3 == (n2 \div g2) * XmScale * XmScale * XmScale
        d3 == K5 * x * x + K6 * XmScale * XmScale
        g3 == GCD(n3, d3)
    IN  fDiv(fMul(q3, n3 \div g3), (d3 \div g3) * (d2 \div g2))

\* the clamp without its upper limit
clampXmBelow(x) == IF fLt(x, 0) THEN 0 ELSE x

\* lines 613-618
clampXm(x) ==
    LET x1 == IF fLt(x, 0) THEN 0 ELSE x
    IN  IF fGt(x1, XmScale) THEN XmScale ELSE x1

(***************************************************************************)
(* State.                                                                  *)
(***************************************************************************)
VARIABLES
    linkType,                                          \* Link::type()
    valveType, presManagType, units, settingPattern,   \* data of the input file
    initStatus, initSetting,
    status, flow, setting, hasFixedStatus,             \* Link / Valve members
    hLoss, hGrad, lossFactor,
    Xm, Xm_Last, delta_Xm,                             \* DPRV opening
    errorValve, errorSumValve, errorDifValve, errorPreValve,
    fromHead, toHead, remoteHead,                      \* Node::head of the nodes
    pc, t, tstep, err, currentTime, stepCalls,         \* EN_runEpanet
    finalized,                                         \* finalizeSolver has run
    inpFileName, outFileName, rptFileName,             \* Project members
    networkEmpty, hydEngineOpened, solverInitialized, outputFileOpened,
    rptFile, outputFile,                               \* the file each stream has open
    msgLog,                                            \* network.msgLog
    propagated                                         \* an exception left the call

config == <<linkType, valveType, presManagType, units, settingPattern, initStatus, initSetting>>
link == <<status, flow, setting, hasFixedStatus>>
loss == <<hLoss, hGrad, lossFactor>>
opening == <<Xm, Xm_Last, delta_Xm>>
errors == <<errorValve, errorSumValve, errorDifValve, errorPreValve>>
heads == <<fromHead, toHead, remoteHead>>
loop == <<pc, t, tstep, err, currentTime, stepCalls, finalized>>
names == <<inpFileName, outFileName, rptFileName>>
flags == <<networkEmpty, hydEngineOpened, solverInitialized, outputFileOpened>>
streams == <<rptFile, outputFile>>
project == <<names, flags, streams, msgLog, propagated>>
network == <<config, link, loss, opening, errors, heads>>
vars == <<config, link, loss, opening, errors, heads, loop, project>>

(***************************************************************************)
(* The state after construction and load: Valve::Valve, setInitStatus,      *)
(* setInitSetting.  The members of the DPRV controller are assigned by no   *)
(* constructor.                                                            *)
(***************************************************************************)
InitValve ==
    /\ hasFixedStatus = (initStatus # "VALVE_ACTIVE")
    /\ status = "LINK_CLOSED"
    /\ flow = 0
    /\ setting = 0
    /\ hLoss = NoLoss /\ hGrad = NoLoss /\ lossFactor = LossFactor
    /\ Xm = Uninit /\ Xm_Last = Uninit /\ delta_Xm = Uninit
    /\ errorValve = Uninit /\ errorSumValve = Uninit
    /\ errorDifValve = Uninit /\ errorPreValve = Uninit
    /\ fromHead = MinHead /\ toHead = MinHead /\ remoteHead = MinHead

InitLoop(p) ==
    /\ pc = p /\ t = 0 /\ tstep = 0 /\ err = 0 /\ currentTime = 0
    /\ stepCalls = <<>>
    /\ finalized = FALSE

(***************************************************************************)
(* Valve::initialize(reInitFlow)                                           *)
(***************************************************************************)
Initialize(reInitFlow) ==
    /\ status' = initStatus
    /\ setting' = initSetting
    /\ flow' = IF reInitFlow THEN setInitFlow(valveType, initSetting) ELSE flow
    /\ hasFixedStatus' = (initStatus # "VALVE_ACTIVE")
    /\ UNCHANGED <<config, loss, opening, errors, heads>>

(***************************************************************************)
(* Valve::findHeadLoss(nw, q): its effect on the members modelled          *)
(***************************************************************************)
FindHeadLoss(q) ==
    /\ status' = findHeadLossStatus(valveType, hasFixedStatus, status, setting)
    /\ lossFactor' =
           findHeadLossFactor(valveType, hasFixedStatus, status, setting, lossFactor)
    /\ \E o \in findHeadLossOutcomes(valveType, hasFixedStatus, status, setting,
                                     Xm, lossFactor, q) :
          hLoss' = o.hLoss /\ hGrad' = o.hGrad
    /\ UNCHANGED <<config, flow, setting, hasFixedStatus, opening, errors, heads>>

(***************************************************************************)
(* Valve::updateStatus(q, h1, h2), called with the link's flow and the     *)
(* heads of its end nodes (spec 4.4).                                      *)
(***************************************************************************)
UpdateStatus ==
    LET newStatus == updateStatusNew(valveType, hasFixedStatus, status, flow,
                                     fromHead, toHead, setting, presManagType, toHead)
    IN  /\ status' = newStatus
        /\ flow' = updateStatusFlow(status, newStatus, flow)
        /\ UNCHANGED <<config, loss, setting, hasFixedStatus, opening, errors, heads>>

(***************************************************************************)
(* Valve::changeSetting(newSetting, makeChange, reason, msgLog)            *)
(***************************************************************************)
changeSettingBlocked(vtype, s, newSetting) ==
    IF vtype = "CCV" THEN s = "LINK_CLOSED" /\ newSetting = 0
    ELSE s = "LINK_CLOSED"

changeSettingResult(vtype, s, set, newSetting) ==
    set # newSetting /\ ~changeSettingBlocked(vtype, s, newSetting)

ChangeSetting(newSetting, makeChange) ==
    /\ IF setting # newSetting
       THEN IF changeSettingBlocked(valveType, status, newSetting)
            THEN /\ setting' = newSetting
                 /\ UNCHANGED <<status, flow>>
            ELSE IF makeChange
                 THEN /\ status' = IF newSetting = 0 THEN "LINK_CLOSED" ELSE "LINK_OPEN"
                      /\ flow' = IF newSetting = 0 THEN ZERO_FLOW ELSE flow
                      /\ setting' = newSetting
                 ELSE UNCHANGED <<status, flow, setting>>
       ELSE UNCHANGED <<status, flow, setting>>
    /\ UNCHANGED <<config, loss, hasFixedStatus, opening, errors, heads>>

(***************************************************************************)
(* Valve::changeStatus(newStatus, makeChange, reason, msgLog)              *)
(***************************************************************************)
changeStatusResult(fixed, s, newStatus) == ~fixed \/ s # newStatus

ChangeStatus(newStatus, makeChange) ==
    /\ IF changeStatusResult(hasFixedStatus, status, newStatus) /\ makeChange
       THEN /\ status' = newStatus
            /\ hasFixedStatus' = TRUE
            /\ flow' = IF newStatus = "LINK_CLOSED" THEN ZERO_FLOW ELSE flow
       ELSE UNCHANGED <<status, hasFixedStatus, flow>>
    /\ UNCHANGED <<config, loss, setting, opening, errors, heads>>

(***************************************************************************)
(* Valve::applyControlPattern(msgLog); factor is the pattern's             *)
(* currentFactor().                                                        *)
(***************************************************************************)
applyControlPatternSetting(hasPattern, set, factor) ==
    LET fs == IF hasPattern THEN factor ELSE 1 IN set * fs

ApplyControlPattern(factor) ==
    /\ applyControlPatternSetting(settingPattern, setting, factor) <= 2 * MaxHead
    /\ setting' = applyControlPatternSetting(settingPattern, setting, factor)
    /\ UNCHANGED <<config, loss, status, flow, hasFixedStatus, opening, errors, heads>>

(***************************************************************************)
(* Project::pressureManagement(t, outFile, alfaopen, alfaclose, Kp, Ki, Kd) *)
(* for the link: the body of the loop.  The gains Kp, Ki, Kd are read only  *)
(* by the PID law, which is commented out (lines 594-608).  The line        *)
(* written to outFile is not modelled.                                      *)
(***************************************************************************)
\* the reopening test without the test of the mode
controllerReopensAnyMode(pm, s, pFromNode, pToNode, ref) ==
    s = "LINK_CLOSED" /\ pFromNode > ref /\ pToNode < ref

controllerReopens(pm, s, pFromNode, pToNode, ref) ==
    pm = "FO" /\ s = "LINK_CLOSED" /\ pFromNode > ref /\ pToNode < ref

\* the error taken on the outlet pressure in every mode
controllerErrorOnOutlet(pm, ref, pToNode, pRemoteNode) == fSub(ref, pToNode)

controllerError(pm, ref, pToNode, pRemoteNode) ==
    IF pm = "RNM" THEN fSub(ref, pRemoteNode) ELSE fSub(ref, pToNode)

nextXm(deltaX, xLast) == clampXm(fAdd(deltaX, xLast))

\* the loop body run for every link
managedAnyLink(ltype, vtype) == TRUE

\* lines 471-474 and 654-657: the links the controller and lasting() work on
managed(ltype, vtype) == ltype = "VALVE" /\ vtype = "DPRV"

\* the reset made on every call
resetOnEveryCall(tt) == TRUE

\* line 476
resetTime(tt) == tt = 0

PressureManagement(tt, alfaopen, alfaclose) ==
    /\ UNCHANGED <<config, loss, flow, setting, hasFixedStatus, heads>>
    /\ IF ~managed(linkType, valveType)
       THEN UNCHANGED <<status, opening, errors>>
       ELSE LET reset == resetTime(tt)
                x0 == IF reset THEN XmInit ELSE Xm
                xLast0 == IF reset THEN XmInit ELSE Xm_Last
                delta0 == IF reset THEN 0 ELSE delta_Xm
                e0 == IF reset THEN 0 ELSE errorValve
                pToNode == toHead - ToElev
                pFromNode == fromHead - FromElev
                pRemoteNode == remoteHead - RemoteElev
                refFO == toInternal(fixedOutletPressure, ucfPressure(units))
                s1 == IF controllerReopens(presManagType, status, pFromNode, pToNode, refFO)
                      THEN "VALVE_ACTIVE" ELSE status
            IN  /\ status' = s1
                /\ Xm_Last' = xLast0
                /\ errorSumValve' = IF reset THEN 0 ELSE errorSumValve
                /\ errorDifValve' = IF reset THEN 0 ELSE errorDifValve
                /\ errorPreValve' = IF reset THEN ErrorPreInit ELSE errorPreValve
                /\ IF s1 = "VALVE_ACTIVE"
                   THEN \E ref \in refValues(presManagType, tt, flow, units) :
                          LET e1 == controllerError(presManagType, ref, pToNode, pRemoteNode)
                              d1 == deltaXm(controlFlow(e1, alfaopen, alfaclose), x0)
                          IN  /\ errorValve' = e1
                              /\ delta_Xm' = d1
                              /\ Xm' = nextXm(d1, xLast0)
                   ELSE /\ errorValve' = e0
                        /\ delta_Xm' = delta0
                        /\ Xm' = clampXm(x0)

(***************************************************************************)
(* Project::lasting()                                                      *)
(***************************************************************************)
\* lasting() without line 660
LastingOfOpeningOnly ==
    /\ Xm_Last' = IF managed(linkType, valveType) THEN Xm ELSE Xm_Last
    /\ UNCHANGED <<config, loss, link, Xm, delta_Xm, errors, heads>>

Lasting ==
    /\ IF managed(linkType, valveType)
       THEN /\ Xm_Last' = Xm
            /\ errorPreValve' = errorValve
       ELSE UNCHANGED <<Xm_Last, errorPreValve>>
    /\ UNCHANGED <<config, loss, link, Xm, delta_Xm, errorValve, errorSumValve,
                   errorDifValve, heads>>

(***************************************************************************)
(* The hydraulic balance (spec 4.3): an iteration gives the link a new     *)
(* flow and its nodes new heads.  A closed link carries no more than       *)
(* ZERO_FLOW.  A tank that reaches a level limit closes the links on it    *)
(* temporarily (spec 3), and opens them again.                             *)
(***************************************************************************)
closedStatus(s) == s \in {"LINK_CLOSED", "TEMP_CLOSED"}

balanceFlows(s) ==
    IF closedStatus(s) THEN {q \in FlowVals : Abs(q) <= ZERO_FLOW} ELSE FlowVals

BalanceFlow(q) ==
    /\ q \in balanceFlows(status)
    /\ flow' = q
    /\ UNCHANGED <<config, loss, status, setting, hasFixedStatus, opening, errors, heads>>

BalanceHeads(h1, h2, hr) ==
    /\ hr # remoteHead => (valveType = "DPRV" /\ presManagType = "RNM")
    /\ fromHead' = h1 /\ toHead' = h2 /\ remoteHead' = hr
    /\ UNCHANGED <<config, loss, link, opening, errors>>

TankCloses ==
    /\ status # "TEMP_CLOSED"
    /\ status' = "TEMP_CLOSED"
    /\ flow' = IF Abs(flow) <= ZERO_FLOW THEN flow ELSE ZERO_FLOW
    /\ UNCHANGED <<config, loss, setting, hasFixedStatus, opening, errors, heads>>

TankOpens ==
    /\ status = "TEMP_CLOSED"
    /\ status' = "LINK_OPEN"
    /\ UNCHANGED <<config, loss, flow, setting, hasFixedStatus, opening, errors, heads>>

(***************************************************************************)
(* Project: the operations on the project's files, solvers and message     *)
(* log.  Each operation that returns an error code runs its work in a try  *)
(* block whose handler appends the message of the ENerror to the message   *)
(* log and returns its code.  The work is a sequence of sites, each a      *)
(* throw statement of the operation or a call of a deeper layer (reader,   *)
(* writer, engine, output file) that signals failure with an ENerror       *)
(* (spec 6).  An operation leaves `err` as the code it returns; an         *)
(* exception that no handler catches leaves the operation and ends the     *)
(* program.                                                                *)
(***************************************************************************)
FileNames == {"a", "b", "c"}

\* line 68: the name Utilities::getTmpFileName gives
TmpFile == "tmp"

Errors ==
    {"DUPLICATE_FILE_NAMES", "CANNOT_OPEN_REPORT_FILE", "NO_RESULTS_SAVED_TO_REPORT",
     "SOLVER_NOT_INITIALIZED", "INPUT_ERROR", "SOLVER_ERROR", "OUTPUT_ERROR"}

\* ENerror::code: never 0, the code of success
codeOf(e) ==
    CASE e = "DUPLICATE_FILE_NAMES" -> 1
      [] e = "CANNOT_OPEN_REPORT_FILE" -> 2
      [] e = "NO_RESULTS_SAVED_TO_REPORT" -> 3
      [] e = "SOLVER_NOT_INITIALIZED" -> 4
      [] e = "INPUT_ERROR" -> 5
      [] e = "SOLVER_ERROR" -> 6
      [] OTHER -> 7

\* the sites of each operation that lie inside its try block
TrySites(op) ==
    CASE op = "load" -> {"clear", "duplicate", "readFile", "convertUnits"}
      [] op = "save" -> {"writeFile"}
      [] op = "initSolver" -> {"validateNetwork", "open", "init", "initWriter"}
      [] op = "runSolver" -> {"notInitialized", "solve", "writeNetworkResults"}
      [] op = "advanceSolver" -> {"advance", "finalizeSolver"}
      [] op = "openOutput" -> {"open"}
      [] op = "saveOutput" -> {"writeNetworkResults"}
      [] op = "openReport" -> {"closeReport", "duplicate", "cannotOpen", "writeHeading"}
      [] op = "writeReport" -> {"noResults", "writeReport"}
      [] OTHER -> {}

\* the try blocks begun after the operation's own tests
inTryOfCallsOnly(op, site) ==
    site \in TrySites(op) \ {"duplicate", "notInitialized", "cannotOpen", "noResults"}

inTry(op, site) == site \in TrySites(op)

\* Utilities::match on names of equal size
match(a, b) == a = b

Return0 == err' = 0 /\ UNCHANGED <<msgLog, propagated>>

\* catch (ENerror const& e) { writeMsg(e.msg); return e.code; }
Caught(e) ==
    /\ Len(msgLog) < MaxMsgs
    /\ msgLog' = Append(msgLog, e)
    /\ err' = codeOf(e)
    /\ UNCHANGED propagated

\* the ENerror e raised at a site of an operation
Raise(op, site, e) ==
    IF inTry(op, site) THEN Caught(e)
    ELSE propagated' = TRUE /\ UNCHANGED <<msgLog, err>>

\* Project::clear()
Clear ==
    /\ ~propagated
    /\ hydEngineOpened' = FALSE
    /\ networkEmpty' = TRUE
    /\ solverInitialized' = FALSE
    /\ inpFileName' = ""
    /\ UNCHANGED <<outFileName, rptFileName, outputFileOpened, streams, msgLog,
                   propagated, err>>

\* Project::load(fname)
Load(fname) ==
    /\ ~propagated
    /\ hydEngineOpened' = FALSE
    /\ solverInitialized' = FALSE
    /\ UNCHANGED <<outFileName, rptFileName, outputFileOpened, streams>>
    /\ IF match(fname, rptFileName) \/ match(fname, outFileName)
       THEN /\ Raise("load", "duplicate", "DUPLICATE_FILE_NAMES")
            /\ inpFileName' = ""
            /\ networkEmpty' = TRUE
       ELSE /\ inpFileName' = fname
            /\ \/ Raise("load", "readFile", "INPUT_ERROR") /\ networkEmpty' = TRUE
               \/ Return0 /\ networkEmpty' = FALSE

\* Project::save(fname)
Save(fname) ==
    /\ ~propagated
    /\ UNCHANGED <<names, flags, streams>>
    /\ \/ Return0
       \/ ~networkEmpty /\ Raise("save", "writeFile", "OUTPUT_ERROR")

\* Project::initSolver(initFlows), on the project's members
InitSolver(initFlows) ==
    /\ ~propagated
    /\ UNCHANGED <<names, networkEmpty, outputFileOpened, streams>>
    /\ IF networkEmpty
       THEN Return0 /\ UNCHANGED <<hydEngineOpened, solverInitialized>>
       ELSE \/ /\ Raise("initSolver", "validateNetwork", "INPUT_ERROR")
               /\ solverInitialized' = FALSE
               /\ UNCHANGED hydEngineOpened
            \/ /\ ~hydEngineOpened
               /\ Raise("initSolver", "open", "SOLVER_ERROR")
               /\ solverInitialized' = FALSE
               /\ UNCHANGED hydEngineOpened
            \/ /\ Raise("initSolver", "init", "SOLVER_ERROR")
               /\ solverInitialized' = FALSE
               /\ hydEngineOpened' = TRUE
            \/ /\ Raise("initSolver", "initWriter", "OUTPUT_ERROR")
               /\ solverInitialized' = TRUE
               /\ hydEngineOpened' = TRUE
            \/ /\ Return0
               /\ solverInitialized' = TRUE
               /\ hydEngineOpened' = TRUE

\* Project::runSolver(t), on the project's members
RunSolver ==
    /\ ~propagated
    /\ UNCHANGED <<names, flags, streams>>
    /\ IF ~solverInitialized
       THEN Raise("runSolver", "notInitialized", "SOLVER_NOT_INITIALIZED")
       ELSE \/ Raise("runSolver", "solve", "SOLVER_ERROR")
            \/ outputFileOpened /\ Raise("runSolver", "writeNetworkResults", "OUTPUT_ERROR")
            \/ Return0

\* Project::advanceSolver(dt), on the project's members
AdvanceSolver ==
    /\ ~propagated
    /\ UNCHANGED <<names, flags, streams>>
    /\ \/ Raise("advanceSolver", "advance", "SOLVER_ERROR")
       \/ /\ solverInitialized /\ outputFileOpened
          /\ Raise("advanceSolver", "finalizeSolver", "OUTPUT_ERROR")
       \/ Return0

\* Project::openOutput(fname)
OpenOutput(fname) ==
    /\ ~propagated
    /\ UNCHANGED <<inpFileName, rptFileName, networkEmpty, hydEngineOpened,
                   solverInitialized, rptFile>>
    /\ IF networkEmpty
       THEN Return0 /\ UNCHANGED <<outFileName, outputFileOpened, outputFile>>
       ELSE /\ outFileName' = IF fname = "" THEN TmpFile ELSE fname
            /\ \/ /\ Raise("openOutput", "open", "OUTPUT_ERROR")
                  /\ outputFileOpened' = FALSE
                  /\ outputFile' = ""
               \/ /\ Return0
                  /\ outputFileOpened' = TRUE
                  /\ outputFile' = outFileName'

\* Project::saveOutput()
SaveOutput ==
    /\ ~propagated
    /\ UNCHANGED <<names, flags, streams>>
    /\ \/ Return0
       \/ outputFileOpened /\ Raise("saveOutput", "writeNetworkResults", "OUTPUT_ERROR")

\* Project::openReport(fname)
OpenReport(fname) ==
    /\ ~propagated
    /\ UNCHANGED <<names, flags, outputFile>>
    /\ IF match(fname, inpFileName) \/ match(fname, outFileName)
       THEN /\ Raise("openReport", "duplicate", "DUPLICATE_FILE_NAMES")
            /\ rptFile' = ""
       ELSE \/ /\ Raise("openReport", "cannotOpen", "CANNOT_OPEN_REPORT_FILE")
               /\ rptFile' = ""
            \/ /\ Raise("openReport", "writeHeading", "OUTPUT_ERROR")
               /\ rptFile' = fname
            \/ /\ Return0
               /\ rptFile' = fname

\* Project::writeReport()
WriteReport ==
    /\ ~propagated
    /\ UNCHANGED <<names, flags, streams>>
    /\ IF ~outputFileOpened
       THEN Raise("writeReport", "noResults", "NO_RESULTS_SAVED_TO_REPORT")
       ELSE \/ Raise("writeReport", "writeReport", "OUTPUT_ERROR")
            \/ Return0

\* Project::writeMsgLog()
WriteMsgLog ==
    /\ ~propagated
    /\ msgLog' = IF rptFile # "" THEN <<>> ELSE msgLog
    /\ UNCHANGED <<names, flags, streams, propagated, err>>

\* Project::~Project()
Destroy ==
    /\ ~propagated
    /\ rptFile' = ""
    /\ outputFile' = ""
    /\ UNCHANGED <<names, flags, msgLog, propagated, err>>

\* the project of EN_runEpanet after openReport, load and openOutput have
\* returned 0 for three different names
ProjectLoaded ==
    /\ inpFileName = "b" /\ outFileName = "c" /\ rptFileName = ""
    /\ networkEmpty = FALSE /\ hydEngineOpened = FALSE
    /\ solverInitialized = FALSE /\ outputFileOpened = TRUE
    /\ rptFile = "a" /\ outputFile = "c"
    /\ msgLog = <<>>
    /\ propagated = FALSE

(***************************************************************************)
(* Spec: a valve of any type under any sequence of calls of the methods    *)
(* that work on its status, flow and setting, between iterations of the    *)
(* hydraulic balance.  The head loss of the valve is the subject of        *)
(* SpecLoss.                                                               *)
(***************************************************************************)
Init ==
    /\ linkType = "VALVE"
    /\ valveType \in ValveTypes
    /\ presManagType \in (IF valveType = "DPRV" THEN PresManagTypes ELSE {"FO"})
    /\ units \in (IF valveType = "DPRV" /\ presManagType = "FO"
                  THEN UnitSystems ELSE {"SI"})
    /\ settingPattern \in BOOLEAN
    /\ initStatus \in {"VALVE_ACTIVE", "LINK_OPEN", "LINK_CLOSED"}
    /\ initSetting \in SettingVals
    /\ InitValve
    /\ InitLoop("api")
    /\ ProjectLoaded

CallInitialize == \E b \in BOOLEAN : Initialize(b) /\ UNCHANGED <<loop, project>>
\* the solver hands findHeadLoss the flow of the link
CallFindHeadLoss == FindHeadLoss(flow) /\ UNCHANGED <<loop, project>>
CallUpdateStatus == UpdateStatus /\ UNCHANGED <<loop, project>>
CallChangeSetting ==
    \E x \in SettingVals, b \in BOOLEAN : ChangeSetting(x, b) /\ UNCHANGED <<loop, project>>
CallChangeStatus ==
    \E x \in {"LINK_OPEN", "LINK_CLOSED"}, b \in BOOLEAN :
        ChangeStatus(x, b) /\ UNCHANGED <<loop, project>>
CallApplyControlPattern == \E f \in FactorVals : ApplyControlPattern(f) /\ UNCHANGED <<loop, project>>
CallBalanceFlow == \E q \in FlowVals : BalanceFlow(q) /\ UNCHANGED <<loop, project>>
CallBalanceHeads ==
    \E h1 \in HeadVals, h2 \in HeadVals, hr \in HeadVals :
        BalanceHeads(h1, h2, hr) /\ UNCHANGED <<loop, project>>
CallTankCloses == TankCloses /\ UNCHANGED <<loop, project>>
CallTankOpens == TankOpens /\ UNCHANGED <<loop, project>>

Next ==
    \/ CallInitialize
    \/ CallUpdateStatus
    \/ CallChangeSetting
    \/ CallChangeStatus
    \/ CallApplyControlPattern
    \/ CallBalanceFlow
    \/ CallBalanceHeads
    \/ CallTankCloses
    \/ CallTankOpens

Spec == Init /\ [][Next]_vars

(***************************************************************************)
(* SpecLoss: the head loss of a valve of any type.  The valve is           *)
(* initialised, its setting and status are changed, its pattern applied,   *)
(* its flow balanced and its tank emptied in any order, and findHeadLoss   *)
(* is called in any of the states this leads to.  The heads of the nodes   *)
(* take no part in the head loss and stay where they are.  The opening of  *)
(* a DPRV is any opening the controller leaves, or is not yet assigned.    *)
(***************************************************************************)
InitLoss ==
    /\ linkType = "VALVE"
    /\ valveType \in ValveTypes
    /\ presManagType = "FO"
    /\ units = "SI"
    /\ settingPattern \in BOOLEAN
    /\ initStatus \in {"VALVE_ACTIVE", "LINK_OPEN", "LINK_CLOSED"}
    /\ initSetting \in SettingVals
    /\ hasFixedStatus = (initStatus # "VALVE_ACTIVE")
    /\ status = "LINK_CLOSED"
    /\ flow = 0
    /\ setting = 0
    /\ hLoss = NoLoss /\ hGrad = NoLoss /\ lossFactor = LossFactor
    /\ Xm \in (IF valveType = "DPRV" THEN (0..XmScale) \cup {Uninit} ELSE {Uninit})
    /\ Xm_Last = Xm /\ delta_Xm = Uninit
    /\ errorValve = Uninit /\ errorSumValve = Uninit
    /\ errorDifValve = Uninit /\ errorPreValve = Uninit
    /\ fromHead = MinHead /\ toHead = MinHead /\ remoteHead = MinHead
    /\ InitLoop("api")
    /\ ProjectLoaded

NextLoss ==
    \/ CallInitialize
    \/ CallFindHeadLoss
    \/ CallChangeSetting
    \/ CallChangeStatus
    \/ CallApplyControlPattern
    \/ CallBalanceFlow
    \/ CallTankCloses
    \/ CallTankOpens

SpecLoss == InitLoss /\ [][NextLoss]_vars

(***************************************************************************)
(* SpecCtl: a DPRV under the controller.  As in the loop of EN_runEpanet   *)
(* (epanet3.cpp lines 128 and 158) calls of the controller and of          *)
(* lasting() alternate, the controller first; the time handed to the       *)
(* controller is any time of the schedule, and the valve is initialised,   *)
(* its status changed and its nodes' heads balanced at any moment.  The     *)
(* first call of the controller has t = 0 (epanet3.cpp line 118), so the   *)
(* members the constructor leaves unassigned are never read before the     *)
(* reset has assigned them.                                                *)
(***************************************************************************)
CtlNetworks ==
    {<<"FO", "SI">>, <<"FO", "US">>, <<"TM", "SI">>, <<"FM", "US">>, <<"RNM", "SI">>}

controllerStarted == valveType # "DPRV" \/ Xm # Uninit

InitCtl ==
    /\ linkType = "VALVE"
    /\ valveType = "DPRV"
    /\ \E n \in CtlNetworks : presManagType = n[1] /\ units = n[2]
    /\ settingPattern = FALSE
    /\ initStatus = "VALVE_ACTIVE"
    /\ initSetting = MinHead
    /\ InitValve
    /\ InitLoop("controller")
    /\ ProjectLoaded

ControllerCall(tt, a1, a2) ==
    /\ pc = "controller"
    /\ tt = 0 \/ controllerStarted
    /\ PressureManagement(tt, a1, a2)
    /\ pc' = "solver"
    /\ UNCHANGED <<t, tstep, err, currentTime, stepCalls, finalized, project>>

CallPressureManagement ==
    \E tt \in TimeVals, a1 \in AlfaVals, a2 \in AlfaVals : ControllerCall(tt, a1, a2)

CallLasting ==
    /\ pc = "solver"
    /\ Lasting
    /\ pc' = "controller"
    /\ UNCHANGED <<t, tstep, err, currentTime, stepCalls, finalized, project>>

NextCtl ==
    \/ CallInitialize
    \/ CallChangeStatus
    \/ CallBalanceHeads
    \/ CallPressureManagement
    \/ CallLasting

SpecCtl == InitCtl /\ [][NextCtl]_vars

(***************************************************************************)
(* SpecRun: EN_runEpanet (epanet3.cpp lines 103-165) on a network with a   *)
(* DPRV.  pc names the call the loop makes next; stepCalls lists the calls *)
(* made so far in the current pass of the do-while loop.                   *)
(*                                                                         *)
(* The hydraulic engine is not part of the sources at hand; its effect is  *)
(* taken from spec 4.3 and 4.6: solve reports the current time in *t and   *)
(* leaves balanced flows, heads and valve statuses; advance returns the    *)
(* step to the next time and moves the clock by it, and returns 0 at the   *)
(* end of the duration.  A failing call returns a nonzero code.            *)
(***************************************************************************)
Duration == MaxSteps * HYD_STEP

InitRun ==
    /\ linkType = "VALVE"
    /\ valveType = "DPRV"
    /\ \E n \in CtlNetworks : presManagType = n[1] /\ units = n[2]
    /\ settingPattern = FALSE
    /\ initStatus = "VALVE_ACTIVE"
    /\ initSetting = MinHead
    /\ InitValve
    /\ InitLoop("initSolver")
    /\ ProjectLoaded

\* an error of runSolver leaving the pass at once
afterRunSolverBreak(e) == IF e = 0 THEN "advanceSolver" ELSE "while"

\* line 135: advanceSolver is called only when runSolver returned no error;
\* the calls of lines 137-158 follow in either case
afterRunSolver(e) == IF e = 0 THEN "advanceSolver" ELSE "lasting"

\* the loop going on after an error
loopAgainAfterError(dt, e) == dt > 0

\* line 160: while ( tstep > 0 && !err )
loopAgain(dt, e) == dt > 0 /\ e = 0

\* lines 249 and 316: advanceSolver calls finalizeSolver when dt = 0, and
\* finalizeSolver returns at once when the solver is not initialised
finalizes(dt, initialized) == dt = 0 /\ initialized

\* HydEngine::advance: the step to the next time
nextStep(now) == IF Duration - now < HYD_STEP THEN Duration - now ELSE HYD_STEP

RunInitSolver ==
    /\ pc = "initSolver"
    /\ InitSolver(FALSE)
    /\ IF err' = 0
       THEN /\ Initialize(TRUE)
            /\ pc' = "pressureManagement"
       ELSE /\ UNCHANGED <<config, loss, link, opening, errors, heads>>
            /\ pc' = "done"
    /\ UNCHANGED <<t, tstep, currentTime, stepCalls, finalized>>

RunPressureManagement ==
    /\ pc = "pressureManagement"
    /\ \E a \in AlfaVals : PressureManagement(t, a, a)
    /\ stepCalls' = <<"pressureManagement">>
    /\ UNCHANGED finalized
    /\ pc' = "runSolver"
    /\ UNCHANGED <<t, tstep, err, currentTime, project>>

\* HydEngine::solve(t) on the link and its nodes: the head loss is found
\* for the flow of the solution, the status updated from it
HydSolve ==
    /\ \E q \in FlowVals, h1 \in HeadVals, h2 \in HeadVals, hr \in HeadVals :
          LET s1 == findHeadLossStatus(valveType, hasFixedStatus, status, setting)
              s2 == updateStatusNew(valveType, hasFixedStatus, s1, q, h1, h2,
                                    setting, presManagType, h2)
          IN  /\ q \in balanceFlows(s1)
              /\ hr # remoteHead => presManagType = "RNM"
              /\ \E o \in findHeadLossOutcomes(valveType, hasFixedStatus, status,
                                               setting, Xm, lossFactor, q) :
                    hLoss' = o.hLoss /\ hGrad' = o.hGrad
              /\ status' = s2
              /\ flow' = updateStatusFlow(s1, s2, q)
              /\ fromHead' = h1 /\ toHead' = h2 /\ remoteHead' = hr
    /\ lossFactor' =
           findHeadLossFactor(valveType, hasFixedStatus, status, setting, lossFactor)
    /\ UNCHANGED <<config, setting, hasFixedStatus, opening, errors>>

\* Project::runSolver returning 0: hydEngine.solve(t)
RunSolverOk ==
    /\ pc = "runSolver"
    /\ RunSolver
    /\ err' = 0
    /\ t' = currentTime
    /\ HydSolve
    /\ stepCalls' = Append(stepCalls, "runSolver")
    /\ UNCHANGED finalized
    /\ pc' = afterRunSolver(0)
    /\ UNCHANGED <<tstep, currentTime>>

\* Project::runSolver catching an ENerror
RunSolverFails ==
    /\ pc = "runSolver"
    /\ RunSolver
    /\ err' # 0
    /\ t' \in {t, currentTime}
    /\ stepCalls' = Append(stepCalls, "runSolver")
    /\ UNCHANGED finalized
    /\ pc' = afterRunSolver(1)
    /\ UNCHANGED <<config, loss, link, opening, errors, heads, tstep, currentTime>>

\* Project::advanceSolver returning 0: hydEngine.advance(dt)
RunAdvanceSolverOk ==
    /\ pc = "advanceSolver"
    /\ AdvanceSolver
    /\ err' = 0
    /\ tstep' = nextStep(currentTime)
    /\ currentTime' = currentTime + nextStep(currentTime)
    /\ stepCalls' = Append(stepCalls, "advanceSolver")
    /\ finalized' = finalizes(nextStep(currentTime), solverInitialized)
    /\ pc' = "lasting"
    /\ UNCHANGED <<config, loss, link, opening, errors, heads, t>>

\* Project::advanceSolver catching an ENerror
RunAdvanceSolverFails ==
    /\ pc = "advanceSolver"
    /\ AdvanceSolver
    /\ err' # 0
    /\ tstep' \in {tstep, 0}
    /\ stepCalls' = Append(stepCalls, "advanceSolver")
    /\ UNCHANGED finalized
    /\ pc' = "lasting"
    /\ UNCHANGED <<config, loss, link, opening, errors, heads, t, currentTime>>

RunLasting ==
    /\ pc = "lasting"
    /\ Lasting
    /\ stepCalls' = Append(stepCalls, "lasting")
    /\ UNCHANGED finalized
    /\ pc' = "while"
    /\ UNCHANGED <<t, tstep, err, currentTime, project>>

RunWhile ==
    /\ pc = "while"
    /\ pc' = IF loopAgain(tstep, err) THEN "pressureManagement" ELSE "done"
    /\ stepCalls' = <<>>
    /\ UNCHANGED finalized
    /\ UNCHANGED <<config, loss, link, opening, errors, heads, t, tstep, err, currentTime,
                   project>>

NextRun ==
    \/ RunInitSolver
    \/ RunPressureManagement
    \/ RunSolverOk
    \/ RunSolverFails
    \/ RunAdvanceSolverOk
    \/ RunAdvanceSolverFails
    \/ RunLasting
    \/ RunWhile

SpecRun == InitRun /\ [][NextRun]_vars

(***************************************************************************)
(* SpecFrame: a link that is no DPRV (a pipe, a pump, a valve of another   *)
(* type) in a network under pressure management.  Calls of the controller  *)
(* and of lasting() alternate as in SpecCtl; between them the hydraulic     *)
(* balance gives the link flows and heads, tanks close and open it, and a   *)
(* valve has its methods called.  A link that is no valve has no valve     *)
(* type.                                                                   *)
(***************************************************************************)
NoValveType == "NONE"

InitFrame ==
    /\ linkType \in LinkTypes
    /\ valveType \in (IF linkType = "VALVE" THEN ValveTypes \ {"DPRV"}
                      ELSE {NoValveType})
    /\ presManagType = "FO"
    /\ units = "SI"
    /\ settingPattern \in (IF linkType = "VALVE" THEN BOOLEAN ELSE {FALSE})
    /\ initStatus \in (IF linkType = "VALVE"
                       THEN {"VALVE_ACTIVE", "LINK_OPEN", "LINK_CLOSED"}
                       ELSE {"LINK_OPEN"})
    /\ initSetting \in (IF linkType = "VALVE" THEN SettingVals ELSE {0})
    /\ InitValve
    /\ InitLoop("controller")
    /\ ProjectLoaded

NextFrame ==
    \/ linkType = "VALVE" /\ CallInitialize
    \/ linkType = "VALVE" /\ CallUpdateStatus
    \/ linkType = "VALVE" /\ CallChangeSetting
    \/ linkType = "VALVE" /\ CallChangeStatus
    \/ linkType = "VALVE" /\ CallApplyControlPattern
    \/ CallBalanceFlow
    \/ CallBalanceHeads
    \/ CallTankCloses
    \/ CallTankOpens
    \/ CallPressureManagement
    \/ CallLasting

SpecFrame == InitFrame /\ [][NextFrame]_vars

(***************************************************************************)
(* SpecApi: a client of the library that runs a simulation step by step    *)
(* through EN_initSolver, EN_runSolver and EN_advanceSolver (epanet3.cpp   *)
(* lines 281-298), as EN_runEpanet does but for the calls of               *)
(* pressureManagement and lasting, which no function of the API makes.     *)
(* The network has a DPRV.                                                 *)
(***************************************************************************)
ApiInitSolver ==
    /\ pc = "initSolver"
    /\ InitSolver(FALSE)
    /\ IF err' = 0
       THEN /\ Initialize(TRUE)
            /\ pc' = "runSolver"
       ELSE /\ UNCHANGED <<config, loss, link, opening, errors, heads>>
            /\ pc' = "done"
    /\ UNCHANGED <<t, tstep, currentTime, stepCalls, finalized>>

ApiRunSolverOk ==
    /\ pc = "runSolver"
    /\ RunSolver
    /\ err' = 0
    /\ t' = currentTime
    /\ HydSolve
    /\ stepCalls' = <<"runSolver">>
    /\ pc' = "advanceSolver"
    /\ UNCHANGED <<tstep, currentTime, finalized>>

ApiRunSolverFails ==
    /\ pc = "runSolver"
    /\ RunSolver
    /\ err' # 0
    /\ t' \in {t, currentTime}
    /\ stepCalls' = <<"runSolver">>
    /\ pc' = "done"
    /\ UNCHANGED <<config, loss, link, opening, errors, heads, tstep, currentTime,
                   finalized>>

ApiAdvanceSolverOk ==
    /\ pc = "advanceSolver"
    /\ AdvanceSolver
    /\ err' = 0
    /\ tstep' = nextStep(currentTime)
    /\ currentTime' = currentTime + nextStep(currentTime)
    /\ finalized' = finalizes(nextStep(currentTime), solverInitialized)
    /\ stepCalls' = Append(stepCalls, "advanceSolver")
    /\ pc' = IF nextStep(currentTime) > 0 THEN "runSolver" ELSE "done"
    /\ UNCHANGED <<config, loss, link, opening, errors, heads, t>>

ApiAdvanceSolverFails ==
    /\ pc = "advanceSolver"
    /\ AdvanceSolver
    /\ err' # 0
    /\ tstep' \in {tstep, 0}
    /\ stepCalls' = Append(stepCalls, "advanceSolver")
    /\ pc' = "done"
    /\ UNCHANGED <<config, loss, link, opening, errors, heads, t, currentTime,
                   finalized>>

NextApi ==
    \/ ApiInitSolver
    \/ ApiRunSolverOk
    \/ ApiRunSolverFails
    \/ ApiAdvanceSolverOk
    \/ ApiAdvanceSolverFails

SpecApi == InitRun /\ [][NextApi]_vars

(***************************************************************************)
(* SpecSteady: the loop of EN_runEpanet on a reservoir, a DPRV in FO mode  *)
(* and a junction with a constant demand downstream of it, for a run that  *)
(* does not fail and whose duration does not end (the clock stays at       *)
(* Duration once it is there: in FO mode the controller reads of t only    *)
(* whether it is 0).  The boundary conditions are constant: the first      *)
(* solution takes the reservoir's head, every later one keeps it.          *)
(*                                                                         *)
(* The head loss of the valve is that of Valve::findHeadLoss.  The         *)
(* hydraulic engine is not part of the sources at hand; its solution is    *)
(* taken from spec 4.3 and 8: the head at the outlet is the head at the    *)
(* inlet less the head loss of the link for the flow it carries, and the   *)
(* valve's status is the one updateStatus gives for that solution.         *)
(***************************************************************************)
ReservoirHeads == (MinHead - 2)..MaxHead

\* the demand of the junction: in cubic feet per second, and on the flow grid
DemandCfs == 1
DemandFlow == ZERO_FLOW + 1

\* the head of the junction when no flow reaches it
DryHead == ToElev

\* the open valve's minor loss for the demand
OpenHeadLoss == 0

\* valve.cpp lines 427-440 and 302-311: hLoss = lossFactor q |q| with
\* lossFactor = 1 / Cv^2, on the head grid
dprvHeadLoss(x, q) ==
    (HeadScale * q * q * (CvDen \div 100) * (CvDen \div 100))
        \div ((((CvNum(x) * CvNum(x)) \div 10000) * CvmaxSq) \div 10000)

\* valve.cpp lines 264-278: the DPRV passes no flow when it is closed or its
\* opening is 0
dprvPasses(s, x) == ~closedStatus(s) /\ x # 0

steadyFlow(s, x) == IF dprvPasses(s, x) THEN DemandFlow ELSE 0

steadyOutletHead(s, x, h1) ==
    IF ~dprvPasses(s, x) THEN DryHead
    ELSE IF s = "LINK_OPEN" THEN h1 - OpenHeadLoss
    ELSE h1 - dprvHeadLoss(x, DemandCfs)

InitSteady ==
    /\ linkType = "VALVE"
    /\ valveType = "DPRV"
    /\ presManagType = "FO"
    /\ units \in UnitSystems
    /\ settingPattern = FALSE
    /\ initStatus = "VALVE_ACTIVE"
    /\ initSetting \in SettingVals
    /\ InitValve
    /\ InitLoop("initSolver")
    /\ ProjectLoaded

SteadyInitSolver == RunInitSolver /\ err' = 0

\* Project::runSolver returning 0 with the solution of the steady network
SteadySolver ==
    /\ pc = "runSolver"
    /\ RunSolver
    /\ err' = 0
    /\ t' = currentTime
    /\ \E h1 \in (IF currentTime = 0 THEN ReservoirHeads ELSE {fromHead}) :
          LET s1 == findHeadLossStatus(valveType, hasFixedStatus, status, setting)
              h2 == steadyOutletHead(s1, Xm, h1)
              s2 == updateStatusNew(valveType, hasFixedStatus, s1, steadyFlow(s1, Xm),
                                    h1, h2, setting, presManagType, h2)
          IN  /\ \E o \in findHeadLossOutcomes(valveType, hasFixedStatus, status,
                                               setting, Xm, lossFactor,
                                               steadyFlow(s1, Xm)) :
                    hLoss' = o.hLoss /\ hGrad' = o.hGrad
              /\ status' = s2
              /\ flow' = steadyFlow(s2, Xm)
              /\ fromHead' = h1
              /\ toHead' = steadyOutletHead(s2, Xm, h1)
              /\ UNCHANGED remoteHead
    /\ stepCalls' = Append(stepCalls, "runSolver")
    /\ UNCHANGED finalized
    /\ pc' = afterRunSolver(0)
    /\ lossFactor' =
           findHeadLossFactor(valveType, hasFixedStatus, status, setting, lossFactor)
    /\ UNCHANGED <<config, setting, hasFixedStatus, opening, errors, tstep, currentTime>>

\* Project::advanceSolver returning 0 before the end of the duration
SteadyAdvanceSolver ==
    /\ pc = "advanceSolver"
    /\ AdvanceSolver
    /\ err' = 0
    /\ tstep' = HYD_STEP
    /\ currentTime' = IF currentTime < Duration THEN currentTime + HYD_STEP
                      ELSE currentTime
    /\ stepCalls' = Append(stepCalls, "advanceSolver")
    /\ finalized' = finalizes(HYD_STEP, solverInitialized)
    /\ pc' = "lasting"
    /\ UNCHANGED <<config, loss, link, opening, errors, heads, t>>

NextSteady ==
    \/ SteadyInitSolver
    \/ RunPressureManagement
    \/ SteadySolver
    \/ SteadyAdvanceSolver
    \/ RunLasting
    \/ RunWhile

\* the calls of the loop
LoopCalls == {"pressureManagement", "runSolver", "advanceSolver", "lasting", "while"}

\* the call the program is at returns, and the program goes on to its next call
CallReturns == \E p \in LoopCalls : pc # p /\ pc' = p

\* no call of the loop blocks
SpecSteady == InitSteady /\ [][NextSteady]_vars /\ WF_pc(CallReturns)

(***************************************************************************)
(* SpecReopen: the loop of EN_runEpanet on a network with a DPRV in TM, FM *)
(* or RNM mode, for a run that does not fail and whose duration does not   *)
(* end (the clock stays at Duration once it is there).  Every solution of  *)
(* the hydraulic engine may leave any flow and any heads of the grid.      *)
(*                                                                         *)
(* Fairness.  No call of the loop blocks, and a call of the solver or of   *)
(* the controller that takes the valve out of CLOSED is made in the end if *)
(* it is possible again and again: the network is taken to offer every     *)
(* hydraulic condition that the grid holds, the assumption most favourable *)
(* to a valve that is to reopen.                                           *)
(***************************************************************************)
ReopenNetworks == {n \in CtlNetworks : n[1] # "FO"}

InitReopen ==
    /\ linkType = "VALVE"
    /\ valveType = "DPRV"
    /\ \E n \in ReopenNetworks : presManagType = n[1] /\ units = n[2]
    /\ settingPattern = FALSE
    /\ initStatus = "VALVE_ACTIVE"
    /\ initSetting = MinHead
    /\ InitValve
    /\ InitLoop("initSolver")
    /\ ProjectLoaded

NextReopen ==
    \/ SteadyInitSolver
    \/ RunPressureManagement
    \/ RunSolverOk
    \/ SteadyAdvanceSolver
    \/ RunLasting
    \/ RunWhile

\* a call of the solver or of the controller that finds the valve CLOSED and
\* leaves it with another status (the controller assigns no status but the
\* ACTIVE of its reopening rule, project.cpp lines 491-500)
LeavesClosed ==
    /\ status = "LINK_CLOSED"
    /\ \/ RunSolverOk
       \/ /\ controllerReopens(presManagType, status, fromHead - FromElev,
                               toHead - ToElev,
                               toInternal(fixedOutletPressure, ucfPressure(units)))
          /\ RunPressureManagement
    /\ status' # "LINK_CLOSED"

SpecReopen ==
    InitReopen /\ [][NextReopen]_vars /\ WF_pc(CallReturns) /\ SF_vars(LeavesClosed)

(***************************************************************************)
(* SpecProject: a project from its construction to its destruction under   *)
(* any sequence of calls of the operations on its files, solvers and       *)
(* message log, for file names drawn from FileNames.  The specification    *)
(* follows the project's members; the network's link stays as the input    *)
(* file gives it, apart from its initialization by initSolver (the         *)
(* hydraulic results of runSolver are those of SpecRun).                   *)
(***************************************************************************)
InitProject ==
    /\ linkType = "VALVE" /\ valveType = "PRV" /\ presManagType = "FO"
    /\ units = "SI" /\ settingPattern = FALSE
    /\ initStatus = "VALVE_ACTIVE" /\ initSetting = 0
    /\ InitValve
    /\ InitLoop("api")
    /\ inpFileName = "" /\ outFileName = "" /\ rptFileName = ""
    /\ networkEmpty = TRUE /\ hydEngineOpened = FALSE
    /\ solverInitialized = FALSE /\ outputFileOpened = FALSE
    /\ rptFile = "" /\ outputFile = ""
    /\ msgLog = <<>>
    /\ propagated = FALSE

CallLoad ==
    /\ pc = "api"
    /\ \E f \in FileNames : Load(f)
    /\ UNCHANGED <<network, pc, t, tstep, currentTime, stepCalls, finalized>>

CallSave ==
    /\ pc = "api"
    /\ \E f \in FileNames : Save(f)
    /\ UNCHANGED <<network, pc, t, tstep, currentTime, stepCalls, finalized>>

CallClear ==
    /\ pc = "api"
    /\ Clear
    /\ UNCHANGED <<network, pc, t, tstep, currentTime, stepCalls, finalized>>

CallInitSolver ==
    /\ pc = "api"
    /\ \E b \in BOOLEAN :
          /\ InitSolver(b)
          /\ IF err' = 0 /\ ~networkEmpty THEN Initialize(b) ELSE UNCHANGED network
    /\ UNCHANGED <<pc, t, tstep, currentTime, stepCalls, finalized>>

CallRunSolver ==
    /\ pc = "api"
    /\ RunSolver
    /\ UNCHANGED <<network, pc, t, tstep, currentTime, stepCalls, finalized>>

CallAdvanceSolver ==
    /\ pc = "api"
    /\ AdvanceSolver
    /\ UNCHANGED <<network, pc, t, tstep, currentTime, stepCalls, finalized>>

CallOpenOutput ==
    /\ pc = "api"
    /\ \E f \in FileNames \cup {""} : OpenOutput(f)
    /\ UNCHANGED <<network, pc, t, tstep, currentTime, stepCalls, finalized>>

CallSaveOutput ==
    /\ pc = "api"
    /\ SaveOutput
    /\ UNCHANGED <<network, pc, t, tstep, currentTime, stepCalls, finalized>>

CallOpenReport ==
    /\ pc = "api"
    /\ \E f \in FileNames : OpenReport(f)
    /\ UNCHANGED <<network, pc, t, tstep, currentTime, stepCalls, finalized>>

CallWriteReport ==
    /\ pc = "api"
    /\ WriteReport
    /\ UNCHANGED <<network, pc, t, tstep, currentTime, stepCalls, finalized>>

CallWriteMsgLog ==
    /\ pc = "api"
    /\ WriteMsgLog
    /\ UNCHANGED <<network, pc, t, tstep, currentTime, stepCalls, finalized>>

CallDestroy ==
    /\ pc = "api"
    /\ Destroy
    /\ pc' = "destroyed"
    /\ UNCHANGED <<network, t, tstep, currentTime, stepCalls, finalized>>

NextProject ==
    \/ CallLoad
    \/ CallSave
    \/ CallClear
    \/ CallInitSolver
    \/ CallRunSolver
    \/ CallAdvanceSolver
    \/ CallOpenOutput
    \/ CallSaveOutput
    \/ CallOpenReport
    \/ CallWriteReport
    \/ CallWriteMsgLog
    \/ CallDestroy

SpecProject == InitProject /\ [][NextProject]_vars

(***************************************************************************)
(* SpecSolver: a project under any sequence of load, clear, openOutput,    *)
(* initSolver, runSolver and advanceSolver, with the clock of the          *)
(* hydraulic engine and the t and dt of the caller.                        *)
(*                                                                         *)
(* The hydraulic engine is not part of the sources at hand; as in SpecRun  *)
(* its effect is taken from spec 4.6: init sets the clock to 0, solve      *)
(* reports the current time in *t, advance returns the step to the next    *)
(* time in *dt and moves the clock by it.                                  *)
(***************************************************************************)
\* the time hydEngine.solve(t) leaves in *t: a call that fails may have
\* written it or not, a call that never reaches the engine has not
solveTimesAnyway(initialized, e, now, before) == {before, now}

solveTimes(initialized, e, now, before) ==
    IF ~initialized THEN {before}
    ELSE IF e = 0 THEN {now}
    ELSE {before, now}

SolverInitSolver ==
    /\ pc = "api"
    /\ \E b \in BOOLEAN :
          /\ InitSolver(b)
          /\ IF err' = 0 /\ ~networkEmpty THEN Initialize(b) ELSE UNCHANGED network
    /\ currentTime' = IF hydEngineOpened' /\ ~networkEmpty THEN 0 ELSE currentTime
    /\ UNCHANGED <<pc, t, tstep, stepCalls, finalized>>

SolverRunSolver ==
    /\ pc = "api"
    /\ RunSolver
    /\ t' \in solveTimes(solverInitialized, err', currentTime, t)
    /\ UNCHANGED <<network, pc, tstep, currentTime, stepCalls, finalized>>

SolverAdvanceSolver ==
    /\ pc = "api"
    /\ AdvanceSolver
    /\ IF err' = 0 /\ solverInitialized
       THEN /\ tstep' = nextStep(currentTime)
            /\ currentTime' = currentTime + nextStep(currentTime)
       ELSE UNCHANGED <<tstep, currentTime>>
    /\ UNCHANGED <<network, pc, t, stepCalls, finalized>>

NextSolver ==
    \/ CallLoad
    \/ CallClear
    \/ CallOpenOutput
    \/ SolverInitSolver
    \/ SolverRunSolver
    \/ SolverAdvanceSolver

SpecSolver == InitProject /\ [][NextSolver]_vars

(***************************************************************************)
(* Properties.                                                             *)
(***************************************************************************)
InUnitRange(x) == x \in 0..XmScale

isPressureValve == valveType \in {"PRV", "PSV", "DPRV"}

\* The transition table of a pressure reducing valve, as a relation between
\* the status before and the status after.
PrvTransition(s, new, q, h1, h2, hset) ==
    LET reverse == q < 0 - ZERO_FLOW IN
    /\ (s = "VALVE_ACTIVE" /\ reverse) => new = "LINK_CLOSED"
    /\ (s = "VALVE_ACTIVE" /\ ~reverse /\ h1 < hset) => new = "LINK_OPEN"
    /\ (s = "VALVE_ACTIVE" /\ ~reverse /\ ~(h1 < hset)) => new = s
    /\ (s = "LINK_OPEN" /\ reverse) => new = "LINK_CLOSED"
    /\ (s = "LINK_OPEN" /\ ~reverse /\ h2 > hset) => new = "VALVE_ACTIVE"
    /\ (s = "LINK_OPEN" /\ ~reverse /\ ~(h2 > hset)) => new = s
    /\ (s = "LINK_CLOSED" /\ h1 > hset /\ h2 < hset) => new = "VALVE_ACTIVE"
    /\ (s = "LINK_CLOSED" /\ ~(h1 > hset /\ h2 < hset) /\ h1 < hset /\ h1 > h2)
           => new = "LINK_OPEN"
    /\ (s = "LINK_CLOSED" /\ ~(h1 > hset /\ h2 < hset) /\ ~(h1 < hset /\ h1 > h2))
           => new = s
    /\ s = "TEMP_CLOSED" => new = s

\* C1: for a DPRV the opening Xm lies in [0, 1] after every call of the
\* controller, and Xm_Last lies in [0, 1] after every call of lasting().
C1_OpeningWithinUnitRange ==
    valveType = "DPRV" =>
        /\ pc = "solver" => InUnitRange(Xm) /\ InUnitRange(Xm_Last)
        /\ (pc = "controller" /\ Xm_Last # Uninit) =>
               InUnitRange(Xm) /\ InUnitRange(Xm_Last)

\* C1: the controller has computed an opening above 1 and has clamped it.
C1_ClampedAtFullOpening ==
    /\ valveType = "DPRV" /\ pc = "solver" /\ status = "VALVE_ACTIVE"
    /\ Xm = XmScale
    /\ fGt(fAdd(delta_Xm, Xm_Last), XmScale)

\* C2: in every reachable state a valve whose status is LINK_CLOSED carries
\* a flow of at most ZERO_FLOW in absolute value.
C2_ClosedValveCarriesNoFlow ==
    status = "LINK_CLOSED" => Abs(flow) <= ZERO_FLOW

\* C3: for a PRV without fixed status, updateStatus follows the transition
\* table of the PRV with hset = setting + elev_to; reverse flow closes the
\* valve before any head is tested, and in every case the table does not
\* name the status stays.
C3_PrvTransitionTable ==
    [][(CallUpdateStatus /\ valveType = "PRV" /\ ~hasFixedStatus)
          => PrvTransition(status, status', flow, fromHead, toHead, setting + ToElev)]_vars

\* C3: an active PRV with reverse flow and an inlet head below hset: both
\* tests of the ACTIVE row apply, and updateStatus closes the valve.
C3_ReverseFlowAndLowInletHead ==
    /\ valveType = "PRV" /\ ~hasFixedStatus /\ status = "VALVE_ACTIVE"
    /\ flow < 0 - ZERO_FLOW
    /\ fromHead < setting + ToElev

\* the fixed outlet pressure divided by 0.3048, on the head grid
FixedOutletInFeet == (fixedOutletPressure * HeadScale * 10000) \div (UserDen * 3048)

C5_ClosingSetsZeroFlow ==
    [][(CallUpdateStatus /\ isPressureValve)
          => flow' = IF status # "LINK_CLOSED" /\ status' = "LINK_CLOSED"
                     THEN ZERO_FLOW ELSE flow]_vars

\* C5 (as stated): the flow of the valve that is closed is set to 0.
C5_ClosingSetsFlowToNought ==
    [][(CallUpdateStatus /\ isPressureValve)
          => flow' = IF status # "LINK_CLOSED" /\ status' = "LINK_CLOSED"
                     THEN 0 ELSE flow]_vars

\* C5: a pressure valve without fixed status, open or active, with reverse
\* flow: updateStatus closes it.
C5_ReverseFlowThroughOpenValve ==
    /\ isPressureValve /\ ~hasFixedStatus
    /\ status \in {"LINK_OPEN", "VALVE_ACTIVE"}
    /\ flow < 0 - ZERO_FLOW

\* C6: updateStatus leaves status and flow as they were when the valve has
\* a fixed status, and when its type is none of PRV, PSV and DPRV.
C6_FixedOrOtherTypeUnchanged ==
    [][(CallUpdateStatus /\ (hasFixedStatus \/ ~isPressureValve))
          => status' = status /\ flow' = flow]_vars

\* C6: a PRV with fixed OPEN status and reverse flow, which the table of
\* the PRV would close.
C6_FixedOpenWithReverseFlow ==
    /\ valveType = "PRV" /\ hasFixedStatus /\ status = "LINK_OPEN"
    /\ flow < 0 - ZERO_FLOW

Count(seq, x) == Cardinality({i \in 1..Len(seq) : seq[i] = x})

\* C7 (as amended): in every pass of the loop the controller is called once,
\* first, the solver is run next, and lasting() is called once, last,
\* whether or not runSolver or advanceSolver returned an error;
\* advanceSolver is called between them when runSolver returned no error.
C7_CallsOfOnePass ==
    pc = "while" =>
        /\ Len(stepCalls) \in {3, 4}
        /\ stepCalls[1] = "pressureManagement"
        /\ Count(stepCalls, "pressureManagement") = 1
        /\ stepCalls[2] = "runSolver"
        /\ stepCalls[Len(stepCalls)] = "lasting"
        /\ Count(stepCalls, "lasting") = 1
        /\ Len(stepCalls) = 4 => stepCalls[3] = "advanceSolver"
        /\ err = 0 => Len(stepCalls) = 4

\* C7 (as stated): lasting() is not called in a pass whose runSolver or
\* advanceSolver returned an error.
C7_NoLastingAfterError ==
    (pc = "while" /\ err # 0) => Count(stepCalls, "lasting") = 0

\* C7: a pass in which runSolver returned an error has ended with lasting().
C7_LastingAfterFailedSolve ==
    /\ pc = "while" /\ err # 0
    /\ stepCalls = <<"pressureManagement", "runSolver", "lasting">>

\* what a call that resets leaves
ResetMade ==
    /\ 5 * Xm_Last' = XmScale
    /\ errorSumValve' = 0 /\ errorDifValve' = 0
    /\ 2 * errorPreValve' = HeadScale
    /\ status' # "VALVE_ACTIVE" =>
           5 * Xm' = XmScale /\ delta_Xm' = 0 /\ errorValve' = 0
    /\ status' = "VALVE_ACTIVE" =>
           LET y == Xm_Last' + delta_Xm'
           IN  Xm' = IF y < 0 THEN 0 ELSE IF y > XmScale THEN XmScale ELSE y

\* what a call that does not reset leaves
NoResetMade ==
    /\ Xm_Last' = Xm_Last
    /\ errorSumValve' = errorSumValve
    /\ errorDifValve' = errorDifValve
    /\ errorPreValve' = errorPreValve
    /\ status' # "VALVE_ACTIVE" =>
           Xm' = Xm /\ delta_Xm' = delta_Xm /\ errorValve' = errorValve

\* C8: a call of the controller with t = 0 leaves Xm_Last = 0.2, the sum and
\* the difference of the errors 0 and errorPreValve = 0.5; the opening is
\* computed from 0.2, and for a valve that is not active Xm = 0.2,
\* delta_Xm = 0 and errorValve = 0.  A call with t > 0 resets none of them.
C8_ResetAtTimeNoughtOnly ==
    [][\A tt \in TimeVals :
          \/ IF tt = 0 THEN ResetMade ELSE NoResetMade
          \/ ~(\E a1 \in AlfaVals, a2 \in AlfaVals : ControllerCall(tt, a1, a2))]_vars

\* C8: the controller has been called with t = 0 for a valve that is not
\* active.
C8_ResetOfInactiveValve ==
    /\ valveType = "DPRV" /\ pc = "solver" /\ status = "LINK_OPEN"
    /\ 5 * Xm = XmScale /\ 5 * Xm_Last = XmScale /\ delta_Xm = 0
    /\ errorValve = 0 /\ errorSumValve = 0 /\ errorDifValve = 0
    /\ 2 * errorPreValve = HeadScale

\* C9: during a run, every call of the controller after the first pass of the
\* loop starts from the Xm_Last that lasting() left: it does not reset it.
C9_OpeningInitialisedOnce ==
    [][(RunPressureManagement /\ currentTime > 0) => Xm_Last' = Xm_Last]_vars

\* the reference of the FO mode in internal units
FixedOutletRef ==
    (fixedOutletPressure * HeadScale * UcfDen) \div (UserDen * ucfPressure(units))

\* C10 (a step from "controller" to "solver" is a call of the controller):
\* the controller makes a CLOSED DPRV ACTIVE exactly when the mode is FO
\* and p_from > ref and p_to < ref; otherwise it leaves it CLOSED, so a
\* CLOSED DPRV in TM, FM or RNM mode is not reopened.
C10_ReopenedInFixedOutletModeOnly ==
    [][(valveType = "DPRV" /\ status = "LINK_CLOSED"
           /\ pc = "controller" /\ pc' = "solver")
          => /\ status' \in {"LINK_CLOSED", "VALVE_ACTIVE"}
             /\ status' = "VALVE_ACTIVE" <=>
                    /\ presManagType = "FO"
                    /\ fromHead - FromElev > FixedOutletRef
                    /\ toHead - ToElev < FixedOutletRef]_vars

\* C10: a DPRV in FO mode that a control had closed for good is ACTIVE after
\* a call of the controller, its pressures on either side of the reference.
C10_ReopenedByController ==
    /\ valveType = "DPRV" /\ presManagType = "FO" /\ pc = "solver"
    /\ status = "VALVE_ACTIVE" /\ hasFixedStatus
    /\ fromHead - FromElev > FixedOutletRef
    /\ toHead - ToElev < FixedOutletRef

\* a step of the controller that leaves the DPRV ACTIVE: the error is computed
ErrorComputed ==
    /\ valveType = "DPRV" /\ pc = "controller" /\ pc' = "solver"
    /\ status' = "VALVE_ACTIVE"

\* the pressure the error is taken on
TargetPressure ==
    IF presManagType = "RNM" THEN remoteHead - RemoteElev ELSE toHead - ToElev

\* a pressure of the input file divided by the pressure conversion factor
InPressureUnits(x) == (x * HeadScale * UcfDen) \div (UserDen * ucfPressure(units))

\* the reference of the FM mode: (a Q^2 + b Q + c) / UCF_length, Q = q UCF_flow
FlowModulatedRef ==
    LET Q == (flow * ucfFlow(units)) \div UcfDen
    IN  ((a_FM * Q * Q + b_FM * Q + c_FM) * HeadScale * UcfDen)
            \div (UserDen * ucfLength(units))

\* C11 (as amended): for an ACTIVE DPRV the controller leaves the error
\* e = ref - p_target, where FO has ref = fixedOutletPressure / UCF_pressure
\* and p_target = p_to, FM has ref = (a Q^2 + b Q + c) / UCF_length with
\* Q = flow * UCF_flow and p_target = p_to, and RNM has ref = rnmPressure /
\* UCF_pressure and p_target = the pressure of the remote node.
C11_ErrorOfEachMode ==
    [][(ErrorComputed /\ presManagType # "TM")
          => errorValve' =
                 (CASE presManagType = "FO" -> InPressureUnits(fixedOutletPressure)
                    [] presManagType = "FM" -> FlowModulatedRef
                    [] OTHER -> InPressureUnits(rnmPressure))
                 - TargetPressure]_vars

\* C11 (as stated): the same with ref = fixedOutletPressure in FO mode and
\* ref = rnmPressure in RNM mode, as they stand in the input.
C11_ErrorOnUnconvertedRef ==
    [][(ErrorComputed /\ presManagType # "TM")
          => errorValve' =
                 (CASE presManagType = "FO" -> (fixedOutletPressure * HeadScale) \div UserDen
                    [] presManagType = "FM" -> FlowModulatedRef
                    [] OTHER -> (rnmPressure * HeadScale) \div UserDen)
                 - TargetPressure]_vars

\* C11: the controller has computed the error of an ACTIVE DPRV in RNM mode
\* whose remote node and outlet node have different pressures.
C11_ErrorOnRemoteNode ==
    /\ valveType = "DPRV" /\ presManagType = "RNM" /\ pc = "solver"
    /\ status = "VALVE_ACTIVE"
    /\ remoteHead - RemoteElev # toHead - ToElev
    /\ errorValve = InPressureUnits(rnmPressure) - (remoteHead - RemoteElev)

\* C12: for an ACTIVE DPRV in TM mode the reference is dayPressure or
\* nightPressure at every time handed to the controller, so the error is one
\* of these two references less p_to.
C12_ReferenceAlwaysAssigned ==
    [][(ErrorComputed /\ presManagType = "TM")
          => errorValve' \in {InPressureUnits(dayPressure) - TargetPressure,
                              InPressureUnits(nightPressure) - TargetPressure}]_vars

\* the instants that end one interval of the schedule and start the next
BoundaryTimes ==
    {tt \in TimeVals : \E i \in 1..Len(TMSchedule), j \in 1..Len(TMSchedule) :
                           TMSchedule[i][2] = tt /\ TMSchedule[j][1] = tt}

\* the pressure of the interval that starts at tt
StartingPressure(tt) ==
    LET j == CHOOSE j \in 1..Len(TMSchedule) : TMSchedule[j][1] = tt
    IN  IF TMSchedule[j][3] = "day" THEN dayPressure ELSE nightPressure

\* C13: at an instant that ends one interval of the TM schedule and starts
\* the next, the controller takes the reference of the interval that starts.
C13_BoundaryTakesStartingInterval ==
    [][\/ ~(ErrorComputed /\ presManagType = "TM")
       \/ \A tt \in BoundaryTimes :
             \/ errorValve' = InPressureUnits(StartingPressure(tt)) - TargetPressure
             \/ ~(\E a1 \in AlfaVals, a2 \in AlfaVals : ControllerCall(tt, a1, a2))]_vars

\* A_cs = (k5 Xm^2 + k6) V_control / lift for the opening x, times
\* 100 XmScale^2 LiftDen
PistonArea(x) == (K5 * x * x + K6 * XmScale * XmScale) * VcontrolNum

\* q3 times the hydraulic step, on the grid of the openings, times
\* 100 XmScale^2 LiftDen
FlowOverStep(q3) ==
    q3 * ((HYD_STEP * 100) \div (AlfaDen * HeadScale)) * LiftDen
       * XmScale * XmScale * XmScale

\* d is the quotient n / den on the grid (rounded towards 0), den > 0
IsQuotient(d, n, den) ==
    /\ Abs(d) * den <= Abs(n)
    /\ Abs(n) < (Abs(d) + 1) * den
    /\ d # 0 => (d > 0 <=> n > 0)

ClampToUnitRange(x) == IF x < 0 THEN 0 ELSE IF x > XmScale THEN XmScale ELSE x

\* C14: for an ACTIVE DPRV, with e the error the call has computed (a number),
\* the controller leaves delta_Xm = (q3 / A_cs) * hydraulic step with
\* A_cs = (k5 Xm^2 + k6) V_control / lift taken at the opening the call
\* starts from, q3 = alfaopen e when e >= 0 and alfaclose e otherwise, and
\* Xm = clamp(Xm_Last + delta_Xm, 0, 1): the increment is added to Xm_Last.
C14_IncrementOnLastOpening ==
    [][\/ ~(ErrorComputed /\ errorValve' # NaN /\ ~isInf(errorValve'))
       \/ \A tt \in TimeVals, a1 \in AlfaVals, a2 \in AlfaVals :
             \/ tt # 0 /\ Xm = Uninit
             \/ LET x == IF tt = 0 THEN XmScale \div 5 ELSE Xm
                    q3 == IF errorValve' >= 0 THEN a1 * errorValve'
                          ELSE a2 * errorValve'
                IN  /\ IsQuotient(delta_Xm', FlowOverStep(q3), PistonArea(x))
                    /\ Xm' = ClampToUnitRange(Xm_Last' + delta_Xm')
             \/ ~ControllerCall(tt, a1, a2)]_vars

\* C14: the controller has closed an ACTIVE DPRV by one step or more on a
\* negative error, from an opening other than the initial one.
C14_ClosingIncrement ==
    /\ valveType = "DPRV" /\ pc = "solver" /\ status = "VALVE_ACTIVE"
    /\ errorValve < 0 /\ errorValve # NaN /\ ~isInf(errorValve)
    /\ delta_Xm < 0
    /\ Xm_Last > XmScale \div 5
    /\ Xm = Xm_Last + delta_Xm

\* C15: a call of the controller and a call of lasting() leave a link that is
\* not a DPRV (a pipe, a pump, a valve of another type) as it was: status,
\* flow, setting, fixed status, the fields of the controller, and the heads
\* of its nodes.
C15_OtherLinksUnchanged ==
    [][(/\ linkType # "VALVE" \/ valveType # "DPRV"
        /\ \/ pc = "controller" /\ pc' = "solver"
           \/ pc = "solver" /\ pc' = "controller")
          => UNCHANGED <<config, loss, link, opening, errors, heads>>]_vars

\* C15: the controller has been called on an ACTIVE PRV whose outlet pressure
\* lies below the fixed outlet pressure, where it would open a DPRV.
C15_ActivePrvPassedOver ==
    /\ linkType = "VALVE" /\ valveType = "PRV" /\ pc = "solver"
    /\ status = "VALVE_ACTIVE"
    /\ toHead - ToElev < FixedOutletRef
    /\ Xm = Uninit /\ errorValve = Uninit

\* C16: for a DPRV a call of lasting() leaves Xm_Last = Xm and errorPreValve =
\* errorValve and changes nothing else (Xm, delta_Xm, errorValve, the sum and
\* the difference of the errors, status, flow, setting, heads); the state it
\* leaves is one a second call would leave as it is (Xm_Last and
\* errorPreValve already hold what it would copy), so two calls in a row
\* give what one gives.
C16_LastingSnapshots ==
    [][(valveType = "DPRV" /\ pc = "solver" /\ pc' = "controller")
          => /\ Xm_Last' = Xm
             /\ errorPreValve' = errorValve
             /\ UNCHANGED <<config, loss, link, Xm, delta_Xm, errorValve,
                            errorSumValve, errorDifValve, heads>>
             /\ Xm_Last' = Xm' /\ errorPreValve' = errorValve']_vars

\* C16: lasting() has been called after a call of the controller that moved
\* the opening of an ACTIVE DPRV on a negative error.
C16_SnapshotAfterMove ==
    /\ valveType = "DPRV" /\ pc = "controller" /\ status = "VALVE_ACTIVE"
    /\ Xm # Uninit /\ delta_Xm < 0
    /\ errorValve < 0 /\ errorValve # NaN /\ ~isInf(errorValve)
    /\ Xm_Last = Xm /\ errorPreValve = errorValve

(***************************************************************************)
(* The project's operations: errors, streams and file names.               *)
(***************************************************************************)
ReturnsCode ==
    \/ CallLoad \/ CallSave \/ CallInitSolver \/ CallRunSolver \/ CallAdvanceSolver
    \/ CallOpenOutput \/ CallSaveOutput \/ CallOpenReport \/ CallWriteReport

\* C18: each of load, save, initSolver, runSolver, advanceSolver, openOutput,
\* saveOutput, openReport and writeReport either returns 0 and leaves the
\* message log alone, or returns the non-zero code of an error whose message
\* it has appended to the message log; no error leaves the operation as an
\* exception.
C18_ErrorsCaughtAndLogged ==
    [][\/ /\ ~propagated'
          /\ \/ err' = 0 /\ msgLog' = msgLog
             \/ \E e \in Errors :
                   err' = codeOf(e) /\ err' # 0 /\ msgLog' = Append(msgLog, e)
       \/ ~ReturnsCode]_vars

\* C18 witness: runSolver on a project whose solver is not initialized has
\* returned the code of SOLVER_NOT_INITIALIZED after logging its message, and
\* the project lives on.
C18_ThrowOfRunSolverCaught ==
    /\ pc = "api" /\ ~propagated
    /\ ~solverInitialized
    /\ err = codeOf("SOLVER_NOT_INITIALIZED")
    /\ msgLog # <<>> /\ msgLog[Len(msgLog)] = "SOLVER_NOT_INITIALIZED"

\* C19 (as claimed, for the output stream): clear() leaves the output file
\* closed with outputFileOpened = false.
C19_ClearReleasesOutput ==
    [][CallClear => outputFile' = "" /\ ~outputFileOpened']_vars

\* the files the project holds: the input file of the loaded network, the
\* open report file and the open output file
FilesHeld ==
    <<IF networkEmpty THEN "" ELSE inpFileName, rptFile, outputFile>>

\* C20 (as claimed): no two of the input file, the report file and the
\* output file of a project share a name.
C20_NoSharedName ==
    \A i, j \in 1..3 : (i # j /\ FilesHeld[i] # "") => FilesHeld[i] # FilesHeld[j]

IntegralBound == 100 * HeadScale

\* C21: the controller offers the PID law beside the physical one: on each
\* update of an ACTIVE DPRV after the first the error is accumulated in
\* errorSumValve, clamped to [-100, 100], so that the gains Kp, Ki and Kd
\* take part in the opening.
C21_IntegralAccumulated ==
    [][(ErrorComputed /\ presManagType # "TM" /\ errorSumValve # Uninit)
          => errorSumValve' =
                 IF errorSumValve + errorValve' > IntegralBound THEN IntegralBound
                 ELSE IF errorSumValve + errorValve' < -IntegralBound THEN -IntegralBound
                 ELSE errorSumValve + errorValve']_vars

(***************************************************************************)
(* The head loss of a valve (SpecLoss).                                    *)
(***************************************************************************)
\* the closed formula: hLoss = q R_closed, hGrad = R_closed
ClosedFormulaApplied ==
    /\ hGrad' = HIGH_RESISTANCE
    /\ hLoss' = <<ResistanceOfZeroFlow * HeadScale * flow, 0>>

\* the gradient of the open formula, 2 lossFactor |q|, in units of MIN_GRADIENT
OpenGradient == (2 * lossFactor[1] * Abs(flow)) \div lossFactor[2]

\* C22: findHeadLoss applies the closed formula to a valve of any type that
\* is TEMP_CLOSED or has the fixed status CLOSED, TEMP_CLOSED coming first;
\* to a valve with the fixed status OPEN it applies the open formula, whose
\* gradient max(2 lossFactor |q|, MIN_GRADIENT) is never below MIN_GRADIENT
\* and whose head loss has the sign of q.
C22_FixedStatusHeadLoss ==
    [][CallFindHeadLoss =>
          /\ (status = "TEMP_CLOSED" \/ (hasFixedStatus /\ status = "LINK_CLOSED"))
                => ClosedFormulaApplied
          /\ (hasFixedStatus /\ status = "LINK_OPEN")
                => /\ hGrad' = <<0, IF OpenGradient < 1 THEN 1 ELSE OpenGradient>>
                   /\ hGrad'[1] = 0 /\ hGrad'[2] >= MIN_GRADIENT[2]
                   /\ hLoss'[1] = 0 /\ fSign(hLoss'[2]) = fSign(flow)]_vars

\* C22: findHeadLoss has been called for a valve with the fixed status OPEN
\* that carries no flow, and the gradient was raised to MIN_GRADIENT.
C22_OpenValveWithoutFlow ==
    /\ hasFixedStatus /\ status = "LINK_OPEN" /\ initStatus = "LINK_OPEN"
    /\ flow = 0
    /\ hGrad = MIN_GRADIENT /\ hLoss = NoLoss

\* the gradient of the open formula for the loss factor lf
GradientOf(lf) ==
    LET g == (2 * lf[1] * Abs(flow)) \div lf[2]
    IN  <<0, IF g < 1 THEN 1 ELSE g>>

\* a call of findHeadLoss for a DPRV whose opening has been assigned
DprvHeadLossFound == CallFindHeadLoss /\ valveType = "DPRV" /\ Xm # Uninit

\* C23 (as amended): for a DPRV findHeadLoss looks at TEMP_CLOSED and at a
\* fixed status first: a valve that is TEMP_CLOSED or has the fixed status
\* CLOSED gets the closed formula, one with the fixed status OPEN the open
\* formula, whatever its opening, Xm = 0 included.  Without fixed status
\* the closed formula is applied whenever status = CLOSED or Xm = 0, the
\* open formula when the status is OPEN with Xm # 0, and otherwise the open
\* formula with the loss factor 1 / Cv(Xm)^2, which is so never evaluated
\* with Xm = 0.
C23_DprvHeadLoss ==
    [][DprvHeadLossFound =>
          IF status = "TEMP_CLOSED" \/ (hasFixedStatus /\ status = "LINK_CLOSED")
          THEN ClosedFormulaApplied
          ELSE IF hasFixedStatus
          THEN status = "LINK_OPEN" => hGrad' = GradientOf(lossFactor)
          ELSE IF status = "LINK_CLOSED" \/ Xm = 0 THEN ClosedFormulaApplied
          ELSE IF status = "LINK_OPEN" THEN hGrad' = GradientOf(lossFactor)
          ELSE Xm # 0 /\ hGrad' = GradientOf(dprvLossFactor(Xm))]_vars

\* C23: findHeadLoss has been called for a DPRV with the fixed status OPEN
\* whose opening is 0, and has applied the open formula to its flow.
C23_FixedOpenWithoutOpening ==
    /\ valveType = "DPRV" /\ hasFixedStatus /\ status = "LINK_OPEN"
    /\ Xm = 0 /\ flow # 0
    /\ hGrad = GradientOf(lossFactor) /\ hGrad # HIGH_RESISTANCE

\* C23 (as stated): for a DPRV findHeadLoss applies the closed formula
\* whenever status = CLOSED or Xm = 0, whatever else holds, a fixed status
\* OPEN included.
C23_ClosedWheneverNoOpening ==
    [][(DprvHeadLossFound /\ (status = "LINK_CLOSED" \/ Xm = 0))
          => ClosedFormulaApplied]_vars

\* C24: for a CCV whose setting is 0, however it became 0 (initial setting,
\* changeSetting or a pattern factor of 0), findHeadLoss leaves the status
\* CLOSED, applies the closed formula and leaves a closed valve, whose
\* flow is ZERO_FLOW and so no larger than ZERO_FLOW in magnitude.  (The
\* valve is taken without a fixed status and not TEMP_CLOSED, the case in
\* which findHeadLoss reaches its CCV branch.)
C24_ClosedCcvCarriesNoFlow ==
    [][(CallFindHeadLoss /\ valveType = "CCV" /\ setting = 0
            /\ ~hasFixedStatus /\ status # "TEMP_CLOSED")
          => /\ status' = "LINK_CLOSED"
             /\ ClosedFormulaApplied
             /\ Abs(flow') <= ZERO_FLOW]_vars

\* C25: the loop of EN_runEpanet ends exactly when advanceSolver has
\* reported dt = 0 or a call has returned an error, and goes on to another
\* step while dt > 0 and there is no error; when runSolver fails,
\* advanceSolver is not called in that pass; when advanceSolver reports
\* dt = 0 the results are finalised, and once the loop has ended no solve
\* follows.
C25_LoopEndsAtLastStepOrError ==
    [][/\ (pc = "while" /\ pc' # "while")
            => pc' = IF tstep = 0 \/ err # 0 THEN "done" ELSE "pressureManagement"
       /\ (pc = "runSolver" /\ pc' # "runSolver" /\ err' # 0)
            => pc' # "advanceSolver"
       /\ (pc = "advanceSolver" /\ pc' # "advanceSolver" /\ err' = 0 /\ tstep' = 0)
            => finalized'
       /\ (pc = "advanceSolver" /\ pc' # "advanceSolver" /\ tstep' # 0)
            => ~finalized'
       /\ pc = "done" => pc' = "done"]_vars

\* C25: the loop has ended after the step in which advanceSolver reported
\* dt = 0 without an error, and the results are finalised.
C25_EndedAtLastStep ==
    pc = "done" /\ err = 0 /\ tstep = 0 /\ currentTime = Duration /\ finalized

\* C26: whenever Project::runSolver has run the balance engine, the
\* controller has been run for that step beforehand, whoever the caller is,
\* so that the opening Xm of a DPRV has been assigned when its head loss is
\* found.
C26_ControllerRunBeforeSolve ==
    [][(pc = "runSolver" /\ pc' # "runSolver" /\ err' = 0 /\ valveType = "DPRV")
          => Xm # Uninit]_vars

\* C27: in each pass of the loop of EN_runEpanet the time handed to the
\* controller is the time at which the runSolver that follows solves the
\* network (between the two calls t still holds the controller's argument).
C27_ControllerTimeIsSolveTime ==
    pc = "runSolver" => t = currentTime

\* C28: applying the setting pattern of a valve makes its setting the base
\* setting times the current factor: applying the pattern once more with
\* the same factor leaves the setting as it is, applying it with the
\* factor 1 after a factor f gives the base setting back, and a valve
\* without a setting pattern keeps its setting.
C28_PatternAppliedOnce ==
    \A f \in FactorVals :
        LET once == applyControlPatternSetting(settingPattern, setting, f)
        IN  /\ applyControlPatternSetting(settingPattern, once, f) = once
            /\ applyControlPatternSetting(settingPattern, once, 1) = setting
            /\ ~settingPattern => once = setting


\* C29: for a DPRV in FO mode the head setting of the status state machine
\* and the reference of the controller are the same pressure in every unit
\* system: updateStatus follows the transition table with hset = ref +
\* elev_to, ref being the fixed outlet pressure divided by the pressure
\* conversion factor of the network.
C29_HeadSettingIsControllerRef ==
    [][(CallUpdateStatus /\ valveType = "DPRV" /\ presManagType = "FO"
           /\ ~hasFixedStatus)
          => PrvTransition(status, status', flow, fromHead, toHead,
                           FixedOutletRef + ToElev)]_vars


\* C30: a valve with a fixed status is OPEN, CLOSED or TEMP_CLOSED and never
\* ACTIVE, whatever calls of initialize, changeStatus, updateStatus and the
\* controller came before.
C30_FixedStatusNeverActive ==
    hasFixedStatus => status \in {"LINK_OPEN", "LINK_CLOSED", "TEMP_CLOSED"}


\* C31: a DPRV in TM, FM or RNM mode that is CLOSED is ACTIVE or OPEN again
\* in a later iteration or step, when the network offers the hydraulic
\* conditions for it: CLOSED is no status that neither the state machine
\* nor the controller ever leaves.
C31_ClosedValveReopens ==
    (valveType = "DPRV" /\ presManagType # "FO" /\ status = "LINK_CLOSED")
        ~> (status # "LINK_CLOSED")


\* C32: a call of changeSetting or of changeStatus with makeChange = false
\* changes nothing of the valve: its setting, status, flow and fixed-status
\* flag are as before, for every valve type, status and new value.
C32_DryRunChangesNothing ==
    [][((\/ \E x \in SettingVals : ChangeSetting(x, FALSE)
         \/ \E s \in {"LINK_OPEN", "LINK_CLOSED"} : ChangeStatus(s, FALSE))
        /\ UNCHANGED <<loop, project>>)
          => UNCHANGED <<setting, status, flow, hasFixedStatus>>]_vars


\* C33: a valve with a fixed status keeps it: the fixed-status flag that
\* changeStatus has set stays set until initialize is called, whatever
\* calls of updateStatus and changeSetting come, and updateStatus leaves
\* the status of such a valve as it is.
C33_FixedStatusKept ==
    [][/\ hasFixedStatus => (hasFixedStatus' \/ CallInitialize)
       /\ (hasFixedStatus /\ CallUpdateStatus) => status' = status]_vars

\* C33: a PRV whose initial status is ACTIVE, which changeStatus has opened
\* and which carries a reverse flow: without a fixed status updateStatus
\* would close it.
C33_OpenedForGoodWithReverseFlow ==
    /\ valveType = "PRV" /\ initStatus = "VALVE_ACTIVE" /\ setting = initSetting
    /\ hasFixedStatus /\ status = "LINK_OPEN"
    /\ flow < 0 - ZERO_FLOW


\* a call of runSolver on a project whose solver is not initialized returns
\* the code of SOLVER_NOT_INITIALIZED after logging its message and leaves
\* the caller's t as it was: the call ends at the test of line 221, before
\* the engine and the output file; and no call of runSolver returns 0 on
\* such a project
RunSolverGuarded ==
    /\ (SolverRunSolver /\ ~solverInitialized)
          => /\ err' = codeOf("SOLVER_NOT_INITIALIZED")
             /\ msgLog' = Append(msgLog, "SOLVER_NOT_INITIALIZED")
             /\ t' = t
             /\ UNCHANGED <<outputFile, outputFileOpened>>
    /\ (SolverRunSolver /\ err' = 0) => solverInitialized

\* clear and every load, accepted or not, leave the solver uninitialized,
\* and nothing but a call of initSolver on a loaded network initializes it
InitializedByInitSolverOnly ==
    /\ (CallClear \/ CallLoad) => ~solverInitialized'
    /\ (~solverInitialized /\ solverInitialized')
          => (SolverInitSolver /\ ~networkEmpty)

\* C34 (amended): runSolver reaches the hydraulic engine and returns 0 only
\* on a project whose solver is initialized, and otherwise returns the code
\* of SOLVER_NOT_INITIALIZED, logs its message and leaves t and the output
\* file alone.  The solver is uninitialized after clear, after every load,
\* and after a call of initSolver that failed before the output writer was
\* initialized (in validateNetwork, hydEngine.open or hydEngine.init); only
\* a call of initSolver on a loaded network initializes it.
C34_RunSolverNeedsInitializedSolver ==
    [][/\ RunSolverGuarded
       /\ InitializedByInitSolverOnly
       /\ (SolverInitSolver /\ err' \notin {0, codeOf("OUTPUT_ERROR")})
             => ~solverInitialized']_vars

\* C34 (as stated): the same, with the solver uninitialized after every call
\* of initSolver that failed.
C34_UninitializedAfterFailedInitSolver ==
    [][/\ RunSolverGuarded
       /\ InitializedByInitSolverOnly
       /\ (SolverInitSolver /\ err' # 0) => ~solverInitialized']_vars

\* C34: runSolver was called after clear had taken the solver of a run in
\* progress: it returned the code of SOLVER_NOT_INITIALIZED, and t is still
\* the time of the step solved before, not the time the clock is at.
C34_RunSolverAfterClear ==
    /\ pc = "api" /\ ~propagated /\ ~solverInitialized /\ networkEmpty
    /\ err = codeOf("SOLVER_NOT_INITIALIZED")
    /\ msgLog # <<>> /\ msgLog[Len(msgLog)] = "SOLVER_NOT_INITIALIZED"
    /\ t # currentTime


\* C35: a call of load that is rejected with DUPLICATE_FILE_NAMES, before
\* any input is read, leaves the project that was loaded as it was: its
\* network, the name of its input file, its engines and its solver.
C35_RejectedLoadKeepsProject ==
    [][(CallLoad /\ err' = codeOf("DUPLICATE_FILE_NAMES"))
          => UNCHANGED <<networkEmpty, inpFileName, hydEngineOpened,
                         solverInitialized>>]_vars


\* a call of the controller that leaves the DPRV ACTIVE, for a last opening
\* within [0, 1]: the control law has been applied
LawApplied ==
    /\ CallPressureManagement
    /\ valveType = "DPRV" /\ status' = "VALVE_ACTIVE"
    /\ Xm_Last' \in 0..XmScale

\* a call of the controller at a time after 0
CalledAfterStart ==
    \E tt \in TimeVals \ {0}, a1 \in AlfaVals, a2 \in AlfaVals :
        ControllerCall(tt, a1, a2)

\* the opening lies at one of its two limits
AtALimit(x) == x = 0 \/ x = XmScale

=============================================================================
